---- MODULE Spec2Model ----
(***************************************************************************)
(* A model of the KeyValues document model of BEE2.4                       *)
(* (src/property_parser.py): the line parser, the serializer and the       *)
(* tree-mutation primitives of class Property.                             *)
(*                                                                         *)
(* Python objects live in a heap (a sequence of Property records, the      *)
(* index being the object's identity), so that aliasing, in-place          *)
(* mutation and "shares no node" are statable.  Text is modelled at the    *)
(* character level: a string is a sequence of one-character strings, a     *)
(* file is a sequence of such lines.                                       *)
(***************************************************************************)
EXTENDS Integers, Sequences, FiniteSets, TLC

VARIABLES
    heap,             \* the Property objects allocated so far
    open_properties,  \* parse(): the stack of open sections (object ids)
    file_contents,    \* parse(): the lines consumed so far
    outcome,          \* parse(): running / returned / raised
    written,          \* the lines to_strings() produced for the parsed forest
    reparsed,         \* the outcome of parsing `written` again
    ret,              \* the last call made on the tree API and what it gave
    nops,             \* number of mutating API calls made so far
    cond,             \* the Property objects of the condition being run
    inst,             \* the scene entity the condition is run against
    MAP_RAND_SEED,    \* vbsp.MAP_RAND_SEED, the seed of the map being compiled
    gen,              \* the state of the global generator of module random
    stream,           \* the numbers the generator has given so far, by seed and position
    ran,              \* the last flag or result executed and what it did
    memo,             \* the draws each flag or result made first, by what it was run on
    cutouts,          \* number of times CutOutTile has worked on the scene
    nexec,            \* number of flags and results executed so far
    VMF,              \* the map: its instances, its overlays, the footprint to convert
    FORCE_LOCATIONS,  \* cutoutTile.FORCE_LOCATIONS
    sign_loc,         \* res_cutout_tile(): the forced locations given to convert_floor
    SETTINGS,         \* res_cutout_tile(): the chances read from the result
    floor_neighbours, \* res_cutout_tile(): the cells of the footprints, in the order recorded
    floor_edges,      \* res_cutout_tile(): the border points of the footprints
    step,             \* where CutOutTile is: the instance, the cell, the tile at hand
    tile,             \* convert_floor(): the tile decided last
    should_flash,     \* CompilerPane: should_flash of the three count variables
    bar_value,        \* CompilerPane: the value of the three count variables
    pending           \* number of flash_count callbacks TK_ROOT.after has pending

docvars == <<heap, open_properties, file_contents, outcome, written, reparsed, ret, nops>>
randvars == <<cond, inst, MAP_RAND_SEED, gen, stream, ran, memo, cutouts, nexec>>
cutvars == <<VMF, FORCE_LOCATIONS, sign_loc, SETTINGS, floor_neighbours, floor_edges, step, tile>>
flashvars == <<should_flash, bar_value, pending>>
vars == <<heap, open_properties, file_contents, outcome, written, reparsed, ret, nops,
          cond, inst, MAP_RAND_SEED, gen, stream, ran, memo, cutouts, nexec,
          VMF, FORCE_LOCATIONS, sign_loc, SETTINGS, floor_neighbours, floor_edges,
          step, tile, should_flash, bar_value, pending>>

(***************************************************************************)
(* Bounds of the model.                                                    *)
(***************************************************************************)
MaxLines == 5
MaxOps == 2
MaxObjects == 8
MaxExec == 2

(***************************************************************************)
(* The components are run one at a time: while the document model is at    *)
(* work the condition engine has loaded nothing, and the other way round;  *)
(* the compiler pane is not up while they work.                            *)
(***************************************************************************)
RandomOff ==
    /\ cond = <<>>
    /\ inst = <<>>
    /\ MAP_RAND_SEED = ""
    /\ gen = <<>>
    /\ stream = <<>>
    /\ ran = <<>>
    /\ memo = <<>>
    /\ cutouts = 0
    /\ nexec = 0

NoTile == <<>>

CutoutOff ==
    /\ VMF = <<>>
    /\ FORCE_LOCATIONS = {}
    /\ sign_loc = {}
    /\ SETTINGS = <<>>
    /\ floor_neighbours = <<>>
    /\ floor_edges = <<>>
    /\ step = <<>>
    /\ tile = NoTile

FlashOff ==
    /\ should_flash = <<>>
    /\ bar_value = <<>>
    /\ pending = 0

DocOnly == UNCHANGED <<randvars, cutvars, flashvars>>

(***************************************************************************)
(* Characters and strings.                                                 *)
(***************************************************************************)
QUOTE == "\""
LBRACE == "{"
RBRACE == "}"
SPACE == " "
TAB == "\t"
APOS == "'"

\* Python's None, as a value of string type that no text can equal.
None == <<"<None>">>

Str0 == <<>>

\* str.startswith(c) for a one-character prefix
startswith(s, c) == Len(s) > 0 /\ s[1] = c

RECURSIVE lstrip(_)
lstrip(s) ==
    IF Len(s) > 0 /\ s[1] \in {SPACE, TAB} THEN lstrip(Tail(s)) ELSE s

RECURSIVE rstrip(_)
rstrip(s) ==
    IF Len(s) > 0 /\ s[Len(s)] \in {SPACE, TAB}
    THEN rstrip(SubSeq(s, 1, Len(s) - 1))
    ELSE s

\* str.split(sep): the segments between occurrences of sep (always >= 1)
RECURSIVE split(_, _)
split(s, sep) ==
    IF \E i \in 1..Len(s) : s[i] = sep
    THEN LET i == CHOOSE k \in 1..Len(s) :
                     s[k] = sep /\ \A j \in 1..(k - 1) : s[j] # sep
         IN  <<SubSeq(s, 1, i - 1)>> \o split(SubSeq(s, i + 1, Len(s)), sep)
    ELSE <<s>>

\* str.casefold() on the letters the model uses
FoldChar(c) == IF c = "A" THEN "a" ELSE IF c = "B" THEN "b" ELSE c

casefold(s) == [i \in 1..Len(s) |-> FoldChar(s[i])]

(***************************************************************************)
(* utils.clean_line and utils.is_identifier are not part of the sources    *)
(* at hand; they follow the specification's grammar (whitespace is         *)
(* insignificant; identifiers are checked against an allowed character     *)
(* set that excludes quotes and braces).                                   *)
(***************************************************************************)
IdentChars == {"a", "A", "b", "B", "x", "y", "N", "o", "n", "e", "_"}

clean_line(line) == rstrip(lstrip(line))

is_identifier(name) == \A i \in 1..Len(name) : name[i] \in IdentChars

(***************************************************************************)
(* Property objects.  `value` is a scalar (isList = FALSE, in sval: a      *)
(* string or None) or a Python list (isList = TRUE, in kids).  A list      *)
(* element is a reference to a Property object or, as Python lists are     *)
(* untyped, a raw string.                                                  *)
(***************************************************************************)
PropRef(id) == [isProp |-> TRUE, id |-> id, raw |-> <<>>]
RawStr(s) == [isProp |-> FALSE, id |-> 0, raw |-> s]

\* Property.__init__ with a scalar value
Property(name, value) ==
    [name |-> name, isList |-> FALSE, sval |-> value, kids |-> <<>>, valid |-> TRUE]

\* Property.__init__ with a list value
PropertyList(name, children) ==
    [name |-> name, isList |-> TRUE, sval |-> <<>>, kids |-> children, valid |-> TRUE]

\* Python truthiness of node.value: None, "" and [] are false
Truthy(node) == IF node.isList THEN Len(node.kids) > 0
                ELSE node.sval # None /\ Len(node.sval) > 0

has_children(node) == node.isList

(***************************************************************************)
(* Exceptions and outcomes.                                                *)
(***************************************************************************)
NoLine == 0 - 1

\* line: the line number the exception's message carries (NoLine: none);
\* at: the value of line_num when the call ended (len(file_contents) after the loop)
Raised(type, msg, line, at) ==
    [kind |-> "raised", type |-> type, msg |-> msg, line |-> line, at |-> at]
Running == [kind |-> "running", type |-> "", msg |-> "", line |-> NoLine, at |-> NoLine]
Returned(at) == [kind |-> "returned", type |-> "", msg |-> "", line |-> NoLine, at |-> at]

(***************************************************************************)
(* Property.parse: one iteration of the loop over the lines.  ps is the    *)
(* parser's state [heap, open_properties, outcome]; object 1 is the        *)
(* synthetic root Property(None, []).                                      *)
(***************************************************************************)
ParseStart ==
    [heap |-> <<PropertyList(None, <<>>)>>, open_properties |-> <<1>>, outcome |-> Running]

\* (mutant) the new Property is appended to the list of the synthetic root
AppendNew_ToRoot(h, top, node) ==
    Append([h EXCEPT ![1].kids = Append(@, PropRef(Len(h) + 1))], node)

\* values.append(Property(...)) where values is the list of object `top`
AppendNew(h, top, node) ==
    Append([h EXCEPT ![top].kids = Append(@, PropRef(Len(h) + 1))], node)

\* the check made after every line
TooManyClosing(ps, line_num) ==
    IF Len(ps.open_properties) = 0
    THEN [ps EXCEPT !.outcome = Raised("KeyValError", "Too many closing brackets", line_num, line_num)]
    ELSE ps

ParseLineBody(ps, line, line_num) ==
    LET top == ps.open_properties[Len(ps.open_properties)]
        values == ps.heap[top].kids
        freshline == clean_line(line)
    IN
    IF Len(freshline) = 0 THEN ps
    ELSE IF startswith(freshline, QUOTE) THEN
        LET line_contents == split(freshline, QUOTE)
            name == line_contents[2]
            value == IF Len(line_contents) >= 4 THEN line_contents[4] ELSE None
        IN  IF ~is_identifier(name)
            THEN [ps EXCEPT !.outcome = Raised("KeyValError", "Invalid name", line_num, line_num)]
            ELSE [ps EXCEPT !.heap = AppendNew(ps.heap, top, Property(name, value))]
    ELSE IF is_identifier(freshline) THEN
        [ps EXCEPT !.heap = AppendNew(ps.heap, top, PropertyList(freshline, <<>>))]
    ELSE IF startswith(freshline, LBRACE) THEN
        IF Len(values) = 0
        THEN [ps EXCEPT !.outcome = Raised("IndexError", "list index out of range", NoLine, line_num)]
        ELSE LET last == values[Len(values)].id
             IN  IF Truthy(ps.heap[last])
                 THEN [ps EXCEPT !.outcome =
                          Raised("KeyValError", "sub-section on in-line value", line_num, line_num)]
                 ELSE [ps EXCEPT !.heap[last] = PropertyList(ps.heap[last].name, <<>>),
                                 !.open_properties = Append(@, last)]
    ELSE IF startswith(freshline, RBRACE) THEN
        [ps EXCEPT !.open_properties = SubSeq(@, 1, Len(@) - 1)]
    ELSE [ps EXCEPT !.outcome = Raised("KeyValError", "Unexpected beginning character", line_num, line_num)]

ParseLineStep(ps, line, line_num) ==
    LET after == ParseLineBody(ps, line, line_num)
    IN  IF after.outcome.kind = "raised" THEN after ELSE TooManyClosing(after, line_num)

\* (mutant) the check after the loop tolerates one open section
ParseFinish_Lenient(ps, n) ==
    IF Len(ps.open_properties) > 2
    THEN [ps EXCEPT !.outcome =
             Raised("KeyValError", "End of text with open sections", NoLine, n)]
    ELSE [ps EXCEPT !.outcome = Returned(n)]

\* the code after the loop; n is the number of lines of the file
ParseFinish(ps, n) ==
    IF Len(ps.open_properties) > 1
    THEN [ps EXCEPT !.outcome =
             Raised("KeyValError", "End of text with open sections", NoLine, n)]
    ELSE [ps EXCEPT !.outcome = Returned(n)]

\* Property.parse as a function of the whole file (line numbers from 0)
RECURSIVE ParseFrom(_, _, _)
ParseFrom(ps, lines, line_num) ==
    IF ps.outcome.kind = "raised" THEN ps
    ELSE IF line_num >= Len(lines) THEN ParseFinish(ps, Len(lines))
    ELSE ParseFrom(ParseLineStep(ps, lines[line_num + 1], line_num), lines, line_num + 1)

parse(lines) == ParseFrom(ParseStart, lines, 0)

(***************************************************************************)
(* Property.to_strings.  The result is the list of lines, or the Python    *)
(* exception the call ends with.                                           *)
(***************************************************************************)
Lines(ls) == [err |-> "", lines |-> ls]
Fails(e) == [err |-> e, lines |-> <<>>]

\* '"{}"'.format(name): None is formatted as the word None
format(name) ==
    <<QUOTE>> \o (IF name = None THEN <<"N", "o", "n", "e">> ELSE name) \o <<QUOTE>>

Indent(ls) == [i \in 1..Len(ls) |-> <<TAB>> \o ls[i]]

RECURSIVE to_strings(_, _)
RECURSIVE ChildLines(_, _, _)

\* the comprehension over self.value, from child i on: every child's
\* to_strings() is called, its lines are kept when the child is valid
ChildLines(h, kids, i) ==
    IF i > Len(kids) THEN Lines(<<>>)
    ELSE IF ~kids[i].isProp THEN Fails("AttributeError")
    ELSE LET one == to_strings(h, kids[i].id)
             rest == ChildLines(h, kids, i + 1)
         IN  IF one.err # "" THEN one
             ELSE IF rest.err # "" THEN rest
             ELSE IF h[kids[i].id].valid THEN Lines(Indent(one.lines) \o rest.lines)
             ELSE rest

to_strings(h, id) ==
    LET self == h[id]
    IN  IF ~self.valid THEN Lines(<<Str0>>)
        ELSE IF self.isList THEN
            LET inner == ChildLines(h, self.kids, 1)
            IN  IF inner.err # "" THEN inner
                ELSE Lines(<<format(self.name), <<LBRACE>>>> \o inner.lines \o <<<<RBRACE>>>>)
        ELSE IF self.sval = None THEN Fails("TypeError")
        ELSE Lines(<<format(self.name) \o <<SPACE, QUOTE>> \o self.sval \o <<QUOTE>>>>)

\* a forest written out: to_strings() of each node of a list, in order
RECURSIVE WriteForest(_, _, _)
WriteForest(h, kids, i) ==
    IF i > Len(kids) THEN Lines(<<>>)
    ELSE IF ~kids[i].isProp THEN Fails("AttributeError")
    ELSE LET one == to_strings(h, kids[i].id)
             rest == WriteForest(h, kids, i + 1)
         IN  IF one.err # "" THEN one
             ELSE IF rest.err # "" THEN rest
             ELSE Lines(one.lines \o rest.lines)

(***************************************************************************)
(* The structure of a tree, as a value: names, scalar values and child     *)
(* order at every depth, with tombstoned (valid = FALSE) nodes left out.   *)
(***************************************************************************)
RECURSIVE TreeOf(_, _)
RECURSIVE ForestOf(_, _, _)

ForestOf(h, kids, i) ==
    IF i > Len(kids) THEN <<>>
    ELSE IF ~kids[i].isProp
         THEN <<[name |-> <<"<str>">>, isList |-> FALSE, sval |-> kids[i].raw, kids |-> <<>>]>>
                  \o ForestOf(h, kids, i + 1)
    ELSE IF ~h[kids[i].id].valid THEN ForestOf(h, kids, i + 1)
    ELSE <<TreeOf(h, kids[i].id)>> \o ForestOf(h, kids, i + 1)

TreeOf(h, id) ==
    [name |-> h[id].name, isList |-> h[id].isList, sval |-> h[id].sval,
     kids |-> ForestOf(h, h[id].kids, 1)]

(***************************************************************************)
(* The files the parser is run on: any sequence of at most MaxLines of     *)
(* these lines.                                                            *)
(***************************************************************************)
InputLines ==
    { <<QUOTE, "a", QUOTE, SPACE, QUOTE, "x", QUOTE>>,     \* "a" "x"
      <<QUOTE, "a", QUOTE, SPACE, QUOTE, QUOTE>>,          \* "a" ""
      <<QUOTE, "a", QUOTE>>,                               \* "a"
      <<TAB, "b">>,                                        \* a bare name, indented
      <<LBRACE>>,
      <<RBRACE>>,
      <<SPACE>>,                                           \* a blank line
      <<QUOTE, LBRACE, QUOTE, SPACE, QUOTE, "x", QUOTE>>,  \* "{" "x"
      <<APOS>> }                                           \* '

NotYet == [kind |-> "none", err |-> "", lines |-> <<>>, forest |-> <<>>]

\* no call made on the tree API yet
NoCall ==
    [op |-> "none", self |-> 0, onList |-> FALSE, keys |-> <<>>, argIsProperty |-> FALSE,
     pre |-> Property(None, None), size |-> 0,
     err |-> "", id |-> 0, ids |-> <<>>, lines |-> <<>>, n |-> 0]

Init ==
    /\ heap = ParseStart.heap
    /\ open_properties = ParseStart.open_properties
    /\ outcome = ParseStart.outcome
    /\ file_contents = <<>>
    /\ written = NotYet
    /\ reparsed = NotYet
    /\ ret = NoCall
    /\ nops = 0
    /\ RandomOff
    /\ CutoutOff
    /\ FlashOff

\* one iteration of the for loop of Property.parse, on the next line of the file
ParseLine ==
    /\ outcome.kind = "running"
    /\ Len(file_contents) < MaxLines
    /\ \E line \in InputLines :
          LET ps == ParseLineStep([heap |-> heap, open_properties |-> open_properties,
                                   outcome |-> outcome], line, Len(file_contents))
          IN  /\ heap' = ps.heap
              /\ open_properties' = ps.open_properties
              /\ outcome' = ps.outcome
              /\ file_contents' = Append(file_contents, line)
    /\ UNCHANGED <<written, reparsed, ret, nops>>
    /\ DocOnly

\* the file ends: the code of Property.parse after the loop
ParseEnd ==
    /\ outcome.kind = "running"
    /\ LET ps == ParseFinish([heap |-> heap, open_properties |-> open_properties,
                              outcome |-> outcome], Len(file_contents))
       IN  outcome' = ps.outcome
    /\ UNCHANGED <<heap, open_properties, file_contents, written, reparsed, ret, nops>>
    /\ DocOnly

\* the returned forest is written out with to_strings()
Serialize ==
    /\ outcome.kind = "returned"
    /\ written.kind = "none"
    /\ LET w == WriteForest(heap, heap[1].kids, 1)
       IN  written' = [kind |-> IF w.err = "" THEN "lines" ELSE "raised",
                       err |-> w.err, lines |-> w.lines, forest |-> <<>>]
    /\ UNCHANGED <<heap, open_properties, file_contents, outcome, reparsed, ret, nops>>
    /\ DocOnly

\* the written lines are parsed again
Reparse ==
    /\ written.kind = "lines"
    /\ reparsed.kind = "none"
    /\ LET ps == parse(written.lines)
       IN  reparsed' = [kind |-> ps.outcome.kind, err |-> ps.outcome.type, lines |-> <<>>,
                        forest |-> IF ps.outcome.kind = "returned"
                                   THEN ForestOf(ps.heap, ps.heap[1].kids, 1) ELSE <<>>]
    /\ UNCHANGED <<heap, open_properties, file_contents, outcome, written, ret, nops>>
    /\ DocOnly

Next == ParseLine \/ ParseEnd \/ Serialize \/ Reparse

Spec == Init /\ [][Next]_vars

(***************************************************************************)
(* The tree API of class Property, as functions of the heap.  A call       *)
(* gives [h: the heap after it, err: "" or the exception it ends with,     *)
(* id: the object returned (0: none), ids: the list returned].             *)
(***************************************************************************)
Gives(h, id, ids) == [h |-> h, err |-> "", id |-> id, ids |-> ids]
Throws(h, e) == [h |-> h, err |-> e, id |-> 0, ids |-> <<>>]

\* Property.find_all on a list of nodes
RECURSIVE find_all_list(_, _, _)
RECURSIVE find_all_from(_, _, _, _)

\* the loop `for prop in run_on`, from element i on
find_all_from(h, run_on, keys, i) ==
    IF i > Len(run_on) THEN Gives(h, 0, <<>>)
    ELSE IF ~run_on[i].isProp THEN Throws(h, "ValueError")
    ELSE LET prop == h[run_on[i].id]
             here == IF prop.name # None /\ casefold(prop.name) = casefold(keys[1])
                     THEN IF Len(keys) > 1
                          THEN IF prop.isList
                               THEN find_all_list(h, prop.kids, Tail(keys))
                               ELSE Gives(h, 0, <<>>)
                          ELSE Gives(h, 0, <<run_on[i].id>>)
                     ELSE Gives(h, 0, <<>>)
         IN  IF here.err # "" THEN here
             ELSE LET rest == find_all_from(h, run_on, keys, i + 1)
                  IN  IF rest.err # "" THEN rest
                      ELSE Gives(h, 0, here.ids \o rest.ids)

find_all_list(h, run_on, keys) ==
    IF Len(keys) = 0 THEN Throws(h, "ValueError")
    ELSE find_all_from(h, run_on, keys, 1)

\* Property.find_all on a single Property: its own name is put in front of
\* the path unless the path starts with exactly that name
find_all(h, self, keys) ==
    IF Len(keys) = 0 THEN Throws(h, "ValueError")
    ELSE IF ~(h[self].name = keys[1])
         THEN find_all_list(h, <<PropRef(self)>>, <<h[self].name>> \o keys)
    ELSE find_all_list(h, <<PropRef(self)>>, keys)

\* the scan `for prop in reversed(run_on)` of find_key, from element i down
RECURSIVE find_key_scan(_, _, _, _)
find_key_scan(h, run_on, key, i) ==
    IF i = 0 THEN 0
    ELSE IF ~run_on[i].isProp THEN 0 - 1
    ELSE IF h[run_on[i].id].name # None /\ casefold(h[run_on[i].id].name) = key
         THEN run_on[i].id
    ELSE find_key_scan(h, run_on, key, i - 1)

\* find_key that, finding nothing, hands out the first node of the list
\* with the default written into it
find_key_list_Reuse(h, run_on, key, def_) ==
    LET found == find_key_scan(h, run_on, casefold(key), Len(run_on))
    IN  IF found > 0 THEN Gives(h, found, <<>>)
        ELSE IF found < 0 THEN Throws(h, "AttributeError")
        ELSE IF def_ = None THEN Throws(h, "NoKeyError")
        ELSE IF Len(run_on) > 0
             THEN Gives([h EXCEPT ![run_on[1].id] = Property(casefold(key), def_)],
                        run_on[1].id, <<>>)
        ELSE Gives(Append(h, Property(casefold(key), def_)), Len(h) + 1, <<>>)

\* Property.find_key on a list of nodes; def_ = None: no default
find_key_list(h, run_on, key, def_) ==
    LET found == find_key_scan(h, run_on, casefold(key), Len(run_on))
    IN  IF found > 0 THEN Gives(h, found, <<>>)
        ELSE IF found < 0 THEN Throws(h, "AttributeError")
        ELSE IF def_ = None THEN Throws(h, "NoKeyError")
        ELSE Gives(Append(h, Property(casefold(key), def_)), Len(h) + 1, <<>>)

\* Property.find_key on a Property: run_on is self.value.  A scalar value
\* is iterated as Python iterates it: None is not iterable, the characters
\* of a string have no attribute `name`.
find_key(h, self, key, def_) ==
    IF h[self].isList THEN find_key_list(h, h[self].kids, key, def_)
    ELSE IF h[self].sval = None THEN Throws(h, "TypeError")
    ELSE IF Len(h[self].sval) > 0 THEN Throws(h, "AttributeError")
    ELSE find_key_list(h, <<>>, key, def_)

\* Property.copy
RECURSIVE copy(_, _)
RECURSIVE CopyChildren(_, _, _)

\* the loop over self.value, from child i on; ids are the copies made
CopyChildren(h, kids, i) ==
    IF i > Len(kids) THEN Gives(h, 0, <<>>)
    ELSE IF ~kids[i].isProp THEN Throws(h, "AttributeError")
    ELSE LET one == copy(h, kids[i].id)
         IN  IF one.err # "" THEN one
             ELSE LET rest == CopyChildren(one.h, kids, i + 1)
                  IN  IF rest.err # "" THEN rest
                      ELSE Gives(rest.h, 0, <<one.id>> \o rest.ids)

copy(h, self) ==
    IF h[self].isList
    THEN LET new_children == CopyChildren(h, h[self].kids, 1)
         IN  IF new_children.err # "" THEN Throws(h, new_children.err)
             ELSE Gives(Append(new_children.h,
                               PropertyList(h[self].name,
                                   [i \in 1..Len(new_children.ids) |->
                                        PropRef(new_children.ids[i])])),
                        Len(new_children.h) + 1, <<>>)
    ELSE Gives(Append(h, Property(h[self].name, h[self].sval)), Len(h) + 1, <<>>)

\* Property.make_invalid
make_invalid(h, self) ==
    [h EXCEPT ![self] = [name |-> None, isList |-> FALSE, sval |-> Str0,
                         kids |-> <<>>, valid |-> FALSE]]

\* Property.edit; None for an argument that is not given
edit(h, self, name, value) ==
    [h EXCEPT ![self].name = IF name # None THEN name ELSE @,
              ![self].isList = IF value # None THEN FALSE ELSE @,
              ![self].kids = IF value # None THEN <<>> ELSE @,
              ![self].sval = IF value # None THEN value ELSE @]

\* Property.__len__
len(h, self) ==
    IF h[self].valid
    THEN IF has_children(h[self]) THEN Len(h[self].kids) ELSE 1
    ELSE 0

\* Property.__setitem__ with a Property (elem) for a section, a string
\* (value) for a scalar; index counts from 0
setitem(h, self, index, elem, value) ==
    IF has_children(h[self])
    THEN IF index < Len(h[self].kids)
         THEN Gives([h EXCEPT ![self].kids[index + 1] = elem], 0, <<>>)
         ELSE Throws(h, "IndexError")
    ELSE IF index = 0 THEN Gives([h EXCEPT ![self].sval = value], 0, <<>>)
    ELSE Throws(h, "IndexError")

\* Property.append with a Property (object val)
append(h, self, val) ==
    IF has_children(h[self])
    THEN [h EXCEPT ![self].kids = Append(@, PropRef(val))]
    ELSE [h EXCEPT ![self] = [@ EXCEPT !.isList = TRUE, !.sval = Str0,
                                       !.kids = <<RawStr(h[self].sval), PropRef(val)>>]]

\* Property.__iadd__; other is the list of elements added: the one
\* reference to a Property (value.append(other)), or the elements of a
\* list (value += other).  NotImplemented from __iadd__ and then from
\* __add__ makes Python raise TypeError.
iadd(h, self, other) ==
    IF has_children(h[self])
    THEN Gives([h EXCEPT ![self].kids = @ \o other], self, <<>>)
    ELSE Throws(h, "TypeError")

\* Property.__add__
add(h, self, other) ==
    IF has_children(h[self])
    THEN LET c == copy(h, self)
         IN  IF c.err # "" THEN c
             ELSE Gives([c.h EXCEPT ![c.id].kids = @ \o other], c.id, <<>>)
    ELSE Throws(h, "TypeError")

(***************************************************************************)
(* The tree API at work (TreeSpec): calls made, in any order, on the       *)
(* objects of a parsed document.  ret records the last call: what was      *)
(* called on which object, with which arguments, the object as it was      *)
(* before the call (pre), the size of the heap before the call, and what   *)
(* the call gave.                                                          *)
(***************************************************************************)
SampleFile ==
    << <<"A">>,
       <<LBRACE>>,
       <<TAB, QUOTE, "b", QUOTE, SPACE, QUOTE, "x", QUOTE>>,
       <<TAB, QUOTE, "B", QUOTE, SPACE, QUOTE, "y", QUOTE>>,
       <<RBRACE>>,
       <<QUOTE, "a", QUOTE, SPACE, QUOTE, "x", QUOTE>> >>

\* the Property objects passed as arguments are made by Property(name, value)
ArgName == <<"b">>
ArgValue == <<"y">>
Keys == {<<"B">>, <<"y">>}
Paths == {<< <<"a">>, <<"b">> >>, << <<"A">>, <<"b">> >>}

Call(op, self, keys, argIsProperty) ==
    [NoCall EXCEPT !.op = op, !.self = self, !.keys = keys,
                   !.argIsProperty = argIsProperty,
                   !.pre = heap[self], !.size = Len(heap)]

Objects == 1..Len(heap)

\* The calls that only read, and the calls that end with an exception or
\* with NotImplemented, leave every object as it was (the default find_key
\* may make is one more object, which nothing refers to), and an exception
\* that is not caught ends the run.  Whatever can follow such a call can
\* follow the call before it as well, so the next call is taken from the
\* states a call that changed the tree left.
Reads == {"find_key", "find_all", "len", "to_strings"}
Fresh == ret.op \notin Reads /\ ret.err = ""

ParserIdle == UNCHANGED <<open_properties, file_contents, outcome, written, reparsed>>

TreeInit ==
    /\ heap = parse(SampleFile).heap
    /\ open_properties = parse(SampleFile).open_properties
    /\ outcome = parse(SampleFile).outcome
    /\ file_contents = SampleFile
    /\ written = NotYet
    /\ reparsed = NotYet
    /\ ret = NoCall
    /\ nops = 0
    /\ RandomOff
    /\ CutoutOff
    /\ FlashOff

\* self.append(val): val a new Property, or something that is no Property
DoAppend ==
    /\ Fresh
    /\ nops < MaxOps
    /\ \E self \in Objects, isProperty \in BOOLEAN :
          /\ isProperty => Len(heap) < MaxObjects
          /\ heap' = IF isProperty
                     THEN append(Append(heap, Property(ArgName, ArgValue)), self, Len(heap) + 1)
                     ELSE heap
          /\ ret' = [Call("append", self, <<>>, isProperty) EXCEPT
                        !.err = IF isProperty THEN "" ELSE "NotImplemented"]
    /\ nops' = nops + 1
    /\ ParserIdle
    /\ DocOnly

\* the elements `other` stands for: a new Property, or a list of one
NewOther(h) == [h |-> Append(h, Property(ArgName, ArgValue)), other |-> <<PropRef(Len(h) + 1)>>]

\* self += other
DoIAdd ==
    /\ Fresh
    /\ nops < MaxOps
    /\ \E self \in Objects, isProperty \in BOOLEAN :
          LET arg == NewOther(heap)
              r == iadd(arg.h, self, arg.other)
          IN  /\ Len(r.h) <= MaxObjects
              /\ heap' = IF r.err = "" THEN r.h ELSE heap
              /\ ret' = [Call("iadd", self, <<>>, isProperty) EXCEPT !.err = r.err, !.id = r.id]
    /\ nops' = nops + 1
    /\ ParserIdle
    /\ DocOnly

\* self + other
DoAdd ==
    /\ Fresh
    /\ nops < MaxOps
    /\ \E self \in Objects, isProperty \in BOOLEAN :
          LET arg == NewOther(heap)
              r == add(arg.h, self, arg.other)
          IN  /\ Len(r.h) <= MaxObjects
              /\ heap' = IF r.err = "" THEN r.h ELSE heap
              /\ ret' = [Call("add", self, <<>>, isProperty) EXCEPT !.err = r.err, !.id = r.id]
    /\ nops' = nops + 1
    /\ ParserIdle
    /\ DocOnly

\* self[index] = value
DoSetItem ==
    /\ Fresh
    /\ nops < MaxOps
    /\ \E self \in Objects, index \in {0, 1} :
          LET arg == NewOther(heap)
              r == setitem(IF has_children(heap[self]) THEN arg.h ELSE heap,
                           self, index, arg.other[1], ArgValue)
          IN  /\ Len(r.h) <= MaxObjects
              /\ heap' = IF r.err = "" THEN r.h ELSE heap
              /\ ret' = [Call("setitem", self, <<>>, has_children(heap[self])) EXCEPT
                            !.err = r.err, !.n = index]
    /\ nops' = nops + 1
    /\ ParserIdle
    /\ DocOnly

\* self.edit(name=...) or self.edit(value=...)
DoEdit ==
    /\ Fresh
    /\ nops < MaxOps
    /\ \E self \in Objects, a \in {<<ArgName, None>>, <<None, ArgValue>>} :
          /\ heap' = edit(heap, self, a[1], a[2])
          /\ ret' = Call("edit", self, a, FALSE)
    /\ nops' = nops + 1
    /\ ParserIdle
    /\ DocOnly

\* self.copy()
DoCopy ==
    /\ Fresh
    /\ nops < MaxOps
    /\ \E self \in Objects :
          LET r == copy(heap, self)
          IN  /\ Len(r.h) <= MaxObjects
              /\ heap' = r.h
              /\ ret' = [Call("copy", self, <<>>, FALSE) EXCEPT !.err = r.err, !.id = r.id]
    /\ nops' = nops + 1
    /\ ParserIdle
    /\ DocOnly

\* self.make_invalid()
DoMakeInvalid ==
    /\ Fresh
    /\ nops < MaxOps
    /\ \E self \in Objects :
          /\ heap' = make_invalid(heap, self)
          /\ ret' = Call("make_invalid", self, <<>>, FALSE)
    /\ nops' = nops + 1
    /\ ParserIdle
    /\ DocOnly

\* self.find_key(key[, def_]) (for a section the same as
\* Property.find_key(self.value, key[, def_]) on its list); a default that
\* is used is a new object
DoFindKey ==
    /\ Fresh
    /\ \E self \in Objects, key \in Keys, def_ \in {None, ArgValue} :
          LET r == find_key(heap, self, key, def_)
          IN  /\ Len(r.h) <= MaxObjects
              /\ heap' = r.h
              /\ ret' = [Call("find_key", self, <<key, def_>>, FALSE) EXCEPT
                            !.err = r.err, !.id = r.id]
    /\ UNCHANGED nops
    /\ ParserIdle
    /\ DocOnly

\* self.find_all(*keys), or Property.find_all(self.value, *keys)
DoFindAll ==
    /\ Fresh
    /\ \E self \in Objects, keys \in Paths, onList \in BOOLEAN :
          LET r == IF onList THEN find_all_list(heap, heap[self].kids, keys)
                   ELSE find_all(heap, self, keys)
          IN  /\ onList => has_children(heap[self])
              /\ ret' = [Call("find_all", self, keys, FALSE) EXCEPT
                            !.onList = onList, !.err = r.err, !.ids = r.ids]
    /\ UNCHANGED <<heap, nops>>
    /\ ParserIdle
    /\ DocOnly

\* len(self)
DoLen ==
    /\ Fresh
    /\ \E self \in Objects :
          ret' = [Call("len", self, <<>>, FALSE) EXCEPT !.n = len(heap, self)]
    /\ UNCHANGED <<heap, nops>>
    /\ ParserIdle
    /\ DocOnly

\* self.to_strings()
DoToStrings ==
    /\ Fresh
    /\ \E self \in Objects :
          LET r == to_strings(heap, self)
          IN  ret' = [Call("to_strings", self, <<>>, FALSE) EXCEPT
                         !.err = r.err, !.lines = r.lines]
    /\ UNCHANGED <<heap, nops>>
    /\ ParserIdle
    /\ DocOnly

TreeNext ==
    \/ DoAppend \/ DoIAdd \/ DoAdd \/ DoSetItem \/ DoEdit \/ DoCopy \/ DoMakeInvalid
    \/ DoFindKey \/ DoFindAll \/ DoLen \/ DoToStrings

TreeSpec == TreeInit /\ [][TreeNext]_vars

(***************************************************************************)
(* Claims about Property.parse and Property.to_strings (under Spec).       *)
(***************************************************************************)
IsOpenLine(line) == startswith(clean_line(line), LBRACE)
IsCloseLine(line) == startswith(clean_line(line), RBRACE)

Opens(lines) == Cardinality({i \in 1..Len(lines) : IsOpenLine(lines[i])})
Closes(lines) == Cardinality({i \in 1..Len(lines) : IsCloseLine(lines[i])})

Prefix(lines, n) == SubSeq(lines, 1, n)

\* every prefix has at least as many { as }, and the whole file as many } as {
Balanced(lines) ==
    /\ \A n \in 0..Len(lines) : Closes(Prefix(lines, n)) <= Opens(Prefix(lines, n))
    /\ Opens(lines) = Closes(lines)

\* parse has ended after its loop ran over the whole file
EndOfInput == outcome.kind # "running" /\ outcome.at = Len(file_contents)


\* the line is a leaf ("name" "value") or a bare name
IsLeafOrBareLine(line) ==
    LET freshline == clean_line(line)
    IN  Len(freshline) > 0 /\ (startswith(freshline, QUOTE) \/ is_identifier(freshline))

\* C26: while Property.parse is running, after every line it has processed
\* without an error, the stack of open sections is not empty and has the
\* synthetic root at its bottom, its depth is 1 + the number of `{` lines -
\* the number of `}` lines processed, and a line that is a leaf or a bare
\* name has been appended, as a new object, to the children of the node
\* that was on top of the stack, and to no other node.
C26_StackDiscipline ==
    [][(outcome'.kind = "running" /\ file_contents' # file_contents) =>
          LET line == file_contents'[Len(file_contents')]
              top == open_properties[Len(open_properties)]
          IN  /\ Len(open_properties') >= 1
              /\ open_properties'[1] = 1
              /\ heap'[1].name = None
              /\ Len(open_properties') = 1 + Opens(file_contents') - Closes(file_contents')
              /\ IsLeafOrBareLine(line) =>
                    /\ open_properties' = open_properties
                    /\ Len(heap') = Len(heap) + 1
                    /\ heap'[top].kids = Append(heap[top].kids, PropRef(Len(heap')))
                    /\ \A id \in 1..Len(heap) : id # top => heap'[id] = heap[id]]_vars

\* the parser is running inside a section, after a section was closed, and
\* the open section has a child
C26_Witness ==
    /\ outcome.kind = "running"
    /\ Len(open_properties) = 2
    /\ Closes(file_contents) > 0
    /\ Len(heap[open_properties[2]].kids) > 0
    /\ IsLeafOrBareLine(file_contents[Len(file_contents)])

\* C1: for every forest parse returns, to_strings() of its top-level nodes
\* does not fail, and parsing the lines it gives returns a structurally
\* equal forest.
C1_RoundTrip ==
    /\ written.kind # "none" => written.kind = "lines"
    /\ reparsed.kind # "none" =>
          /\ reparsed.kind = "returned"
          /\ reparsed.forest = ForestOf(heap, heap[1].kids, 1)

LastDeclaredIsScalar ==
    LET values == heap[open_properties[Len(open_properties)]].kids
    IN  /\ Len(values) > 0
        /\ ~heap[values[Len(values)].id].isList
        /\ heap[values[Len(values)].id].sval # None

\* C4: a { line whose most recently declared name already holds a scalar
\* value (any quoted value, the empty string included) always raises the
\* inline-value-conflict error.
C4_InlineConflict ==
    [][ ( /\ outcome.kind = "running"
          /\ Len(file_contents') = Len(file_contents) + 1
          /\ IsOpenLine(file_contents'[Len(file_contents')])
          /\ LastDeclaredIsScalar )
        => outcome' = Raised("KeyValError", "sub-section on in-line value",
                             Len(file_contents), Len(file_contents)) ]_vars

\* C10: every rejection is a KeyValError that carries the number of the
\* line on which the violation was detected.
C10_RejectsWithLine ==
    outcome.kind = "raised" =>
        /\ outcome.type = "KeyValError"
        /\ outcome.line # NoLine
        /\ outcome.line = outcome.at

(***************************************************************************)
(* Claims about the tree API (under TreeSpec).                             *)
(***************************************************************************)
\* a section: a list-valued node whose elements are all Property objects
IsSection(node) == node.isList /\ \A i \in 1..Len(node.kids) : node.kids[i].isProp

\* the sections that hold object id as a child
ParentsOf(id) ==
    {p \in Objects : heap[p].isList /\ \E i \in 1..Len(heap[p].kids) :
                         heap[p].kids[i].isProp /\ heap[p].kids[i].id = id}

\* the objects of the subtree of object id
RECURSIVE Reach(_, _)
Reach(h, id) ==
    {id} \cup UNION {Reach(h, h[id].kids[i].id) :
                        i \in {j \in 1..Len(h[id].kids) : h[id].kids[j].isProp}}

\* the whole structure of a subtree, tombstones and their status included
RECURSIVE FullTreeOf(_, _)
FullTreeOf(h, id) ==
    [name |-> h[id].name, isList |-> h[id].isList, sval |-> h[id].sval,
     valid |-> h[id].valid,
     kids |-> [i \in 1..Len(h[id].kids) |->
                  IF h[id].kids[i].isProp THEN FullTreeOf(h, h[id].kids[i].id)
                  ELSE [name |-> <<"<str>">>, isList |-> FALSE, sval |-> h[id].kids[i].raw,
                        valid |-> TRUE, kids |-> <<>>]]]

\* C2: whatever calls were made, every element of a list-valued node's
\* value is a Property node, never a raw scalar.
C2_ChildrenAreProperties ==
    \A id \in Objects : heap[id].isList => IsSection(heap[id])

\* C8: appending a Property to a scalar-valued node, through append(), +
\* or +=, is an error and leaves the node's value as it was.
C8_AppendToScalarIsError ==
    (ret.op \in {"append", "add", "iadd"} /\ ret.argIsProperty /\ ~ret.pre.isList) =>
        /\ ret.err # ""
        /\ heap[ret.self] = ret.pre

\* the positions of the children of a section whose name is key, ignoring case
Matching(node, key) ==
    {i \in 1..Len(node.kids) :
        /\ heap[node.kids[i].id].name # None
        /\ casefold(heap[node.kids[i].id].name) = casefold(key)}

Last(S) == CHOOSE i \in S : \A j \in S : j <= i

\* C5: find_key on a section returns the last of the children whose name
\* equals the key ignoring case, and never a tombstoned child.
C5_FindKeyLastMatch ==
    (ret.op = "find_key" /\ IsSection(ret.pre)) =>
        /\ Matching(ret.pre, ret.keys[1]) # {} =>
              /\ ret.err = ""
              /\ ret.id = ret.pre.kids[Last(Matching(ret.pre, ret.keys[1]))].id
        /\ (ret.id # 0 /\ ret.id <= ret.size) => heap[ret.id].valid

SameIgnoringCase(k1, k2) ==
    Len(k1) = Len(k2) /\ \A i \in 1..Len(k1) : casefold(k1[i]) = casefold(k2[i])

\* C6: the result of find_all does not change when the letter case of a
\* path segment changes, on a list of nodes and on a single Property.
C6_FindAllIgnoresCase ==
    ret.op = "find_all" =>
        \A keys \in Paths :
            SameIgnoringCase(keys, ret.keys) =>
                LET again == IF ret.onList
                             THEN find_all_list(heap, heap[ret.self].kids, keys)
                             ELSE find_all(heap, ret.self, keys)
                IN  again.err = ret.err /\ again.ids = ret.ids

\* the heap with object id taken out of the child list of p
Unlinked(h, p, id) ==
    [h EXCEPT ![p].kids = SelectSeq(@, LAMBDA e : ~(e.isProp /\ e.id = id))]

\* C7: after make_invalid() on a child of a section the node is still in
\* the parent's child list, but it is left out of the parent's
\* serialization, is not returned by find_key or find_all on the parent,
\* and is not counted in the parent's length.
C7_TombstoneExcluded ==
    ret.op = "make_invalid" =>
        \A p \in ParentsOf(ret.self) :
            IsSection(heap[p]) /\ heap[p].valid =>
                /\ to_strings(heap, p) = to_strings(Unlinked(heap, p, ret.self), p)
                /\ \A key \in Keys \cup {ArgName} :
                       find_key(heap, p, key, None).id # ret.self
                /\ \A keys \in Paths \cup {<<ArgName>>} : \A i \in 1..Len(find_all_list(heap, heap[p].kids, keys).ids) :
                       find_all_list(heap, heap[p].kids, keys).ids[i] # ret.self
                /\ len(heap, p) = len(Unlinked(heap, p, ret.self), p)

\* C9: copy() gives a tree that shares no node with the original and has
\* the same structure at every depth, tombstone status included, so that
\* it serializes to the same lines as the original.
C9_CopyIsIdentical ==
    (ret.op = "copy" /\ ret.err = "") =>
        /\ Reach(heap, ret.id) \cap (1..ret.size) = {}
        /\ FullTreeOf(heap, ret.id) = FullTreeOf(heap, ret.self)
        /\ to_strings(heap, ret.id) = to_strings(heap, ret.self)

\* a find_key call on a section none of whose children has the key as name
FindKeyMisses(call) ==
    /\ call.op = "find_key"
    /\ IsSection(call.pre)
    /\ Matching(call.pre, call.keys[1]) = {}

\* C11: when find_key on a section finds no child with the key, then with
\* a default it returns a newly created Property carrying the default that
\* is in no node's child list, and every object of the tree is as it was;
\* without a default it raises NoKeyError (and the tree is as it was).
C11_FindKeyDefault ==
    [][FindKeyMisses(ret') =>
          IF ret'.keys[2] = None
          THEN ret'.err = "NoKeyError" /\ heap' = heap
          ELSE /\ ret'.err = ""
               /\ ret'.id = Len(heap) + 1
               /\ Len(heap') = Len(heap) + 1
               /\ SubSeq(heap', 1, Len(heap)) = heap
               /\ ~heap'[ret'.id].isList
               /\ heap'[ret'.id].sval = ret'.keys[2]
               /\ \A p \in 1..Len(heap') : \A i \in 1..Len(heap'[p].kids) :
                      ~(heap'[p].kids[i].isProp /\ heap'[p].kids[i].id = ret'.id)]_vars

\* find_key with a default has missed on a section that has children
C11_Witness ==
    /\ FindKeyMisses(ret)
    /\ Len(ret.pre.kids) > 0
    /\ ret.keys[2] # None
    /\ ret.id = ret.size + 1

(***************************************************************************)
(* The randomisation flags and results (src/src/conditions/randomise.py),  *)
(* run by the condition engine on one scene entity.                        *)
(*                                                                         *)
(* Module random is one global generator.  random.seed(key) puts it in the *)
(* state that belongs to key; each number drawn moves it on by one.  What  *)
(* the n-th number after seed(key) is, is fixed once and for all but not   *)
(* known: `stream` holds the numbers seen so far, a number not yet seen is *)
(* any of Draws.  A number stands for the hundredths of the range drawn    *)
(* from: random.randrange(100) is the number itself.                       *)
(***************************************************************************)
Draws == {0, 99}

\* the state of the generator before anything seeded it
Unseeded == [key |-> <<"<os entropy>">>, n |-> 0]

\* what a flag or result is run in: the condition's objects, the entity,
\* the generator, the numbers still to come (supply), whether they agree
\* with the numbers seen so far (ok), what was done (trace), the signal
\* returned (sig) and the exception raised (err)
Machine(c, i, g, st, cut, supply) ==
    [cond |-> c, inst |-> i, gen |-> g, stream |-> st, cutouts |-> cut,
     supply |-> supply, ok |-> TRUE, trace |-> <<>>, sig |-> "None", err |-> ""]

Event(ev, key, n, raw, node) ==
    [ev |-> ev, key |-> key, n |-> n, raw |-> raw, node |-> node]

\* random.seed(key)
random_seed(m, key) ==
    [m EXCEPT !.gen = [key |-> key, n |-> 0],
              !.trace = Append(@, Event("seed", key, 0, 0, 0))]

\* the number the next draw gives
NextRaw(m) == Head(m.supply)

\* the generator after one draw
random_draw(m) ==
    LET at == <<m.gen.key, m.gen.n + 1>>
        seeded == m.gen.key # Unseeded.key
    IN  [m EXCEPT
            !.supply = Tail(@),
            !.gen.n = @ + 1,
            !.ok = @ /\ ((seeded /\ at \in DOMAIN m.stream) => m.stream[at] = NextRaw(m)),
            !.stream = IF seeded /\ at \notin DOMAIN @
                       THEN [k \in DOMAIN @ \cup {at} |->
                                IF k = at THEN NextRaw(m) ELSE @[k]]
                       ELSE @,
            !.trace = Append(@, Event("draw", m.gen.key, m.gen.n + 1, NextRaw(m), 0))]

\* random.choice(seq), as a position of seq (from 1)
choice(seq, raw) == (raw * Len(seq)) \div 100 + 1

\* random.uniform(a, b) and random.randint(a, b), on whole numbers
uniform(a, b, raw) == a + ((b - a) * raw) \div 100

randint(a, b, raw) == a + ((b - a + 1) * raw) \div 100

(***************************************************************************)
(* srctools (conversions, Property and Entity access) and the condition    *)
(* engine (module conditions) are not part of the sources at hand; they    *)
(* follow the specification: a percentage or count that is absent or       *)
(* malformed gives the default, res[key, default] is the value of the last *)
(* child named key.                                                        *)
(***************************************************************************)
Digits == <<"0", "1", "2", "3", "4", "5", "6", "7", "8", "9">>

DigitVal(ch) == (CHOOSE i \in 1..Len(Digits) : Digits[i] = ch) - 1

IsNumeric(s) ==
    s # None /\ Len(s) > 0 /\ \A i \in 1..Len(s) : \E d \in 1..Len(Digits) : Digits[d] = s[i]

RECURSIVE int(_)
int(s) == IF Len(s) = 0 THEN 0
          ELSE 10 * int(SubSeq(s, 1, Len(s) - 1)) + DigitVal(s[Len(s)])

conv_int(val, default) == IF IsNumeric(val) THEN int(val) ELSE default

conv_bool(val) == val = <<"1">>

\* str.rstrip(chars) for a single character
RECURSIVE rstrip_char(_, _)
rstrip_char(s, ch) ==
    IF Len(s) > 0 /\ s[Len(s)] = ch THEN rstrip_char(SubSeq(s, 1, Len(s) - 1), ch)
    ELSE s

\* a Property of the condition: a leaf (value in sval), a block (children
\* in kids), or, once its setup has run, the value the setup returned
NoSetup == <<>>

SetupValue ==
    [seed |-> <<>>, chance |-> 0, weight |-> <<>>, results |-> <<>>, range |-> <<>>]

Leaf(name, value) ==
    [name |-> name, isList |-> FALSE, sval |-> value, kids |-> <<>>,
     isSetup |-> FALSE, setup |-> NoSetup]

Block(name, children) ==
    [name |-> name, isList |-> TRUE, sval |-> None, kids |-> children,
     isSetup |-> FALSE, setup |-> NoSetup]

\* res[key, default]: the value of the last child with that name
RECURSIVE getitem_from(_, _, _, _, _)
getitem_from(c, kids, key, default, i) ==
    IF i = 0 THEN default
    ELSE IF c[kids[i]].name = key THEN c[kids[i]].sval
    ELSE getitem_from(c, kids, key, default, i - 1)

getitem(c, res, key, default) == getitem_from(c, c[res].kids, key, default, Len(c[res].kids))

\* conditions.weighted_random(count, weights): the pool of the indices
\* 0..count-1, index i as many times as the i-th entry of the
\* comma-separated weights says (1 for an entry that is missing or is no
\* number)
WeightOf(entries, i) ==
    IF i <= Len(entries) /\ IsNumeric(entries[i]) THEN int(entries[i]) ELSE 1

RECURSIVE Repeat(_, _)
Repeat(x, n) == IF n = 0 THEN <<>> ELSE <<x>> \o Repeat(x, n - 1)

RECURSIVE pool_from(_, _, _)
pool_from(entries, count, i) ==
    IF i > count THEN <<>>
    ELSE Repeat(i - 1, WeightOf(entries, i)) \o pool_from(entries, count, i + 1)

weighted_random(count, weights) == pool_from(split(weights, ","), count, 1)

\* list(range(count))
range(count) == [i \in 1..count |-> i - 1]

\* result.value = func(result): the value of the node is what its setup gave
WithValue(node, setup) ==
    [node EXCEPT !.isList = FALSE, !.sval = None, !.kids = <<>>,
                 !.isSetup = TRUE, !.setup = setup]

SetupGives(c, valid) == [cond |-> c, valid |-> valid]

\* res_add_variant_setup: the pool of variant numbers, None (not valid)
\* without a count
res_add_variant_setup(c, res) ==
    LET count == IF c[res].isList
                 THEN conv_int(getitem(c, res, "number", Str0), 0)
                 ELSE conv_int(c[res].sval, 0)
        pool == IF c[res].isList
                THEN weighted_random(count, getitem(c, res, "weights", Str0))
                ELSE range(count)
    IN  IF count # 0
        THEN SetupGives([c EXCEPT ![res] = WithValue(@, [SetupValue EXCEPT !.weight = pool])], TRUE)
        ELSE SetupGives(c, FALSE)

\* res_rand_inst_shift_setup: (min_x, max_x, min_y, max_y, min_z, max_z)
res_rand_inst_shift_setup(c, res) ==
    LET num(key) == conv_int(getitem(c, res, key, <<"0">>), 0)
    IN  SetupGives([c EXCEPT ![res] = WithValue(@, [SetupValue EXCEPT !.range =
                       <<num("min_x"), num("max_x"), num("min_y"), num("max_y"),
                         num("min_z"), num("max_z")>>])], TRUE)

\* the loop `for prop in res` of res_random_setup, from child i on
RECURSIVE random_children(_, _, _, _)
random_children(c, kids, i, acc) ==
    IF i > Len(kids) THEN acc
    ELSE LET prop == c[kids[i]]
         IN  random_children(c, kids, i + 1,
                IF prop.name = "chance"
                THEN [acc EXCEPT !.chance = conv_int(rstrip_char(prop.sval, "%"), @)]
                ELSE IF prop.name = "weights" THEN [acc EXCEPT !.weight = prop.sval]
                ELSE IF prop.name = "seed" THEN [acc EXCEPT !.seed = prop.sval]
                ELSE [acc EXCEPT !.results = Append(@, kids[i])])

RECURSIVE setup_result(_, _)
RECURSIVE setup_list(_, _, _)
RECURSIVE setup_alternatives(_, _, _)
RECURSIVE res_random_setup(_, _)

\* Condition.setup_result(res_list, result): a result that has a setup gets
\* what the setup returns as its value; one whose setup returns None is
\* taken out of res_list (valid = FALSE)
setup_result(c, res) ==
    IF c[res].name = "random" THEN res_random_setup(c, res)
    ELSE IF c[res].name = "variant" THEN res_add_variant_setup(c, res)
    ELSE IF c[res].name = "randomshift" THEN res_rand_inst_shift_setup(c, res)
    ELSE SetupGives(c, TRUE)

\* `for sub_prop in prop.value[:]: Condition.setup_result(prop.value, sub_prop)`:
\* the list that is left, from element i on
setup_list(c, ids, i) ==
    IF i > Len(ids) THEN [cond |-> c, kept |-> <<>>]
    ELSE LET one == setup_result(c, ids[i])
             rest == setup_list(one.cond, ids, i + 1)
         IN  [cond |-> rest.cond,
              kept |-> (IF one.valid THEN <<ids[i]>> ELSE <<>>) \o rest.kept]

\* the loop `for prop in results[:]` of res_random_setup, from element i on
setup_alternatives(c, results, i) ==
    IF i > Len(results) THEN [cond |-> c, kept |-> <<>>]
    ELSE IF c[results[i]].name = "group"
    THEN LET members == setup_list(c, c[results[i]].kids, 1)
             rest == setup_alternatives(
                         [members.cond EXCEPT ![results[i]].kids = members.kept],
                         results, i + 1)
         IN  [cond |-> rest.cond, kept |-> <<results[i]>> \o rest.kept]
    ELSE LET one == setup_result(c, results[i])
             rest == setup_alternatives(one.cond, results, i + 1)
         IN  [cond |-> rest.cond,
              kept |-> (IF one.valid THEN <<results[i]>> ELSE <<>>) \o rest.kept]

\* res_random_setup: (seed, chance, weight, results)
res_random_setup(c, res) ==
    LET read == random_children(c, c[res].kids, 1,
                    [SetupValue EXCEPT !.weight = Str0, !.chance = 100, !.seed = Str0])
        weight == weighted_random(Len(read.results), read.weight)
        alts == setup_alternatives(c, read.results, 1)
    IN  IF Len(read.results) = 0 THEN SetupGives(c, FALSE)
        ELSE SetupGives([alts.cond EXCEPT ![res] = WithValue(@,
                            [SetupValue EXCEPT !.seed = read.seed, !.chance = read.chance,
                                            !.weight = weight, !.results = alts.kept])],
                        TRUE)

\* a value as a piece of a seed string
Str(x) == ToString(x)

\* the result node rewritten into the marker that does nothing
Nop(node) ==
    [node EXCEPT !.name = "nop", !.isList = FALSE, !.sval = None, !.kids = <<>>,
                 !.isSetup = FALSE, !.setup = NoSetup]

Raise(m, e) == [m EXCEPT !.err = e]

\* flag_random: True or False
flag_random(m, res) ==
    LET c == m.cond
        chance_str == IF c[res].isList THEN getitem(c, res, "chance", <<"1", "0", "0">>)
                      ELSE c[res].sval
        seed == IF c[res].isList THEN getitem(c, res, "seed", Str0) ELSE Str0
        chance == conv_int(rstrip_char(chance_str, "%"), 100)
        m1 == random_seed(m, <<"random_chance_", Str(seed), ":", m.inst.targetname, "_",
                               Str(m.inst.origin), "_", m.inst.angles>>)
    IN  [random_draw(m1) EXCEPT !.sig = IF NextRaw(m1) < chance THEN "True" ELSE "False"]

\* conditions.add_suffix(inst, "_var" + str(n + 1)) of res_add_variant: the
\* number in the suffix
variant_number_FromZero(ind) == ind

variant_number(ind) == ind + 1

res_add_variant(m, res) ==
    LET pool == m.cond[res].setup.weight
        m1 == IF m.inst.targetname = ""
              THEN random_seed(m, <<MAP_RAND_SEED, Str(m.inst.origin), m.inst.angles>>)
              ELSE random_seed(m, <<m.inst.targetname, Str(m.inst.origin), m.inst.angles>>)
    IN  IF Len(pool) = 0 THEN Raise(m1, "IndexError")
        ELSE [random_draw(m1) EXCEPT
                 !.inst.file = Append(@, variant_number(pool[choice(pool, NextRaw(m1))]))]

res_rand_num(m, res) ==
    LET c == m.cond
        is_float == conv_bool(getitem(c, res, "decimal", None))
        max_val == conv_int(getitem(c, res, "max", <<"1">>), 0)
        min_val == conv_int(getitem(c, res, "min", <<"0">>), 0)
        seed == getitem(c, res, "seed", <<"r", "a", "n", "d", "o", "m">>)
        m1 == random_seed(m, <<Str(m.inst.origin), m.inst.angles, "random_", Str(seed)>>)
        value == IF is_float THEN uniform(min_val, max_val, NextRaw(m1))
                 ELSE randint(min_val, max_val, NextRaw(m1))
    IN  IF getitem(c, res, "decimal", None) = None THEN Raise(m, "IndexError")
        ELSE [random_draw(m1) EXCEPT !.inst.fixup = <<value>>]

\* the loop `for axis in 'xyz'` of res_rand_vec, from axis i on
Axes == <<[max |-> "max_x", min |-> "min_x"], [max |-> "max_y", min |-> "min_y"],
          [max |-> "max_z", min |-> "min_z"]>>

RECURSIVE rand_vec_axes(_, _, _, _, _)
rand_vec_axes(m, res, is_float, value, i) ==
    IF i > Len(Axes) THEN [m EXCEPT !.inst.fixup = value]
    ELSE LET max_val == conv_int(getitem(m.cond, res, Axes[i].max, <<"0">>), 0)
             min_val == conv_int(getitem(m.cond, res, Axes[i].min, <<"0">>), 0)
         IN  IF min_val = max_val
             THEN rand_vec_axes(m, res, is_float, Append(value, min_val), i + 1)
             ELSE rand_vec_axes(random_draw(m), res, is_float,
                      Append(value, IF is_float THEN uniform(min_val, max_val, NextRaw(m))
                                    ELSE randint(min_val, max_val, NextRaw(m))),
                      i + 1)

res_rand_vec(m, res) ==
    LET c == m.cond
        is_float == conv_bool(getitem(c, res, "decimal", None))
        seed == getitem(c, res, "seed", <<"r", "a", "n", "d", "o", "m">>)
        m1 == random_seed(m, <<Str(m.inst.origin), m.inst.angles, "random_", Str(seed)>>)
    IN  IF getitem(c, res, "decimal", None) = None THEN Raise(m, "IndexError")
        ELSE rand_vec_axes(m1, res, is_float, <<>>, 1)

\* a seed string that also depends on how much was run before
res_rand_inst_shift_key_Counted(i) ==
    <<MAP_RAND_SEED, "_random_shift_", Str(i.origin), i.angles, Str(nexec)>>

\* res_rand_inst_shift: the seed string
res_rand_inst_shift_key(i) ==
    <<MAP_RAND_SEED, "_random_shift_", Str(i.origin), i.angles>>

\* res_rand_inst_shift (the entity is not rotated: the offset is added as
\* it is drawn)
res_rand_inst_shift(m, res) ==
    LET r == m.cond[res].setup.range
        m1 == random_seed(m, res_rand_inst_shift_key(m.inst))
        m2 == random_draw(m1)
        m3 == random_draw(m2)
        offset == <<uniform(r[1], r[2], NextRaw(m1)), uniform(r[3], r[4], NextRaw(m2)),
                    uniform(r[5], r[6], NextRaw(m3))>>
    IN  [random_draw(m3) EXCEPT
            !.inst.origin = [a \in 1..3 |-> m.inst.origin[a] + offset[a]]]

\* res_cutout_tile, as far as the randomisation results see it: it seeds
\* the generator for its noise, works on the scene and returns
\* RES_EXHAUSTED
res_cutout_tile_run(m) ==
    [random_seed(m, <<MAP_RAND_SEED, "_CUTOUT_TILE_NOISE">>) EXCEPT
        !.cutouts = @ + 1, !.sig = "RES_EXHAUSTED"]

RECURSIVE test_result(_, _)
RECURSIVE random_group(_, _, _)
RECURSIVE res_random(_, _)

\* a sub-result is made a nop whatever it returned
random_after_Always(m, sub_res) ==
    IF m.err = "" THEN [m EXCEPT !.cond[sub_res] = Nop(@)] ELSE m

\* res_random: a sub-result that returned RES_EXHAUSTED is made a nop
\* (sub_res.name = 'nop'; sub_res.value = None)
random_after(m, sub_res) ==
    IF m.err = "" /\ m.sig = "RES_EXHAUSTED"
    THEN [m EXCEPT !.cond[sub_res] = Nop(@)]
    ELSE m

\* the loop stops at the first member that returned RES_EXHAUSTED
random_group_UntilExhausted(m, members, i) ==
    IF i > Len(members) \/ m.err # "" \/ (i > 1 /\ m.cond[members[i - 1]].name = "nop")
    THEN m
    ELSE random_group(random_after(test_result(m, members[i]), members[i]), members, i + 1)

\* the loop `for sub_res in choice.value` of res_random, from member i on
random_group(m, members, i) ==
    IF i > Len(members) \/ m.err # "" THEN m
    ELSE random_group(random_after(test_result(m, members[i]), members[i]), members, i + 1)

res_random(m, res) ==
    LET v == m.cond[res].setup
        m1 == random_seed(m, <<"random_case_", Str(v.seed), ":", m.inst.targetname, "_",
                               Str(m.inst.origin), "_", m.inst.angles>>)
        m2 == random_draw(m1)
    IN  IF NextRaw(m1) > v.chance THEN m2
        ELSE IF Len(v.weight) = 0 THEN Raise(m2, "IndexError")
        ELSE LET ind == v.weight[choice(v.weight, NextRaw(m2))]
                 m3 == [random_draw(m2) EXCEPT
                           !.trace = Append(@, Event("choice", <<>>, 0, 0, ind))]
             IN  IF ind + 1 > Len(v.results) THEN Raise(m3, "IndexError")
                 ELSE LET choice_ == v.results[ind + 1]
                          after == IF m3.cond[choice_].name = "group"
                                   THEN random_group(m3, m3.cond[choice_].kids, 1)
                                   ELSE random_after(test_result(m3, choice_), choice_)
                      IN  [after EXCEPT !.sig = "None"]

\* Condition.test_result(inst, res): the function registered for the name
\* of the result is run, and what it returns is returned; the nop marker
\* runs nothing
test_result(m, res) ==
    LET name == m.cond[res].name
        go == [m EXCEPT !.sig = "None",
                        !.trace = Append(@, Event("run", <<>>, 0, 0, res))]
    IN  IF name = "random" THEN res_random(go, res)
        ELSE IF name = "variant" THEN res_add_variant(go, res)
        ELSE IF name = "randomnum" THEN res_rand_num(go, res)
        ELSE IF name = "randomvec" THEN res_rand_vec(go, res)
        ELSE IF name = "randomshift" THEN res_rand_inst_shift(go, res)
        ELSE IF name = "cutouttile" THEN res_cutout_tile_run(go)
        ELSE IF name = "nop" THEN go
        ELSE Raise(go, "Exception")

(***************************************************************************)
(* The condition that is run (RandSpec).  Its flags are                    *)
(*    "random" "<chance>"                                                  *)
(*    "random" { "chance" "<chance>" "seed" "t" }                          *)
(* and its results                                                         *)
(*    "random" { "chance" "<chance>" "weights" "<weights>"                 *)
(*               "variant" "2"                                             *)
(*               "group" { "CutOutTile" { }                                *)
(*                         "RandomNum" { "decimal" "0" "max" "3" } } }     *)
(*    "variant" { "Number" "3" "weights" "<weights>" }                     *)
(*    "RandomNum" { "decimal" "0" "max" "3" }                              *)
(*    "RandomVec" { "decimal" "0" "max_x" "2" }                            *)
(*    "randomShift" { "max_x" "2" }                                        *)
(* where a chance or weights that is None is left out.                     *)
(***************************************************************************)
Given(value, id) == IF value = None THEN <<>> ELSE <<id>>

Condition(chance, weights) ==
    << Leaf("random", IF chance = None THEN Str0 ELSE chance),
       Block("random", Given(chance, 3) \o <<4>>),
       Leaf("chance", chance),
       Leaf("seed", <<"t">>),
       Block("random", Given(chance, 6) \o Given(weights, 7) \o <<8, 9>>),
       Leaf("chance", chance),
       Leaf("weights", weights),
       Leaf("variant", <<"2">>),
       Block("group", <<10, 11>>),
       Block("cutouttile", <<>>),
       Block("randomnum", <<12, 13>>),
       Leaf("decimal", <<"0">>),
       Leaf("max", <<"3">>),
       Block("variant", <<15>> \o Given(weights, 16)),
       Leaf("number", <<"3">>),
       Leaf("weights", weights),
       Block("randomnum", <<18, 19>>),
       Leaf("decimal", <<"0">>),
       Leaf("max", <<"3">>),
       Block("randomvec", <<21, 22>>),
       Leaf("decimal", <<"0">>),
       Leaf("max_x", <<"2">>),
       Block("randomshift", <<24>>),
       Leaf("max_x", <<"2">>) >>

\* the flags and the results of the condition, in the order declared
Flags == <<1, 2>>
Results == <<5, 14, 17, 20, 23>>

\* the chance and the weights the condition is written with
Settings ==
    { [chance |-> None, weights |-> None],
      [chance |-> <<"0">>, weights |-> <<"2">>],
      [chance |-> <<"5", "0", "%">>, weights |-> <<"2", ",", "x">>],
      [chance |-> <<"x">>, weights |-> <<"0", ",", "3">>] }

\* the entity: a named one, and one that got no name
Entity(targetname) ==
    [targetname |-> targetname, origin |-> <<0, 0, 0>>, angles |-> "0 0 0",
     file |-> <<>>, fixup |-> <<>>]

Entities == {Entity("a"), Entity("")}

MapSeeds == {"m1", "m2"}

\* nothing executed yet
NoRun ==
    [op |-> "none", res |-> 0, pre |-> <<>>, inst |-> Entity(""), map |-> "",
     cutouts |-> 0, trace |-> <<>>, sig |-> "None", err |-> ""]

DocOff ==
    /\ heap = <<>>
    /\ open_properties = <<>>
    /\ file_contents = <<>>
    /\ outcome = Running
    /\ written = NotYet
    /\ reparsed = NotYet
    /\ ret = NoCall
    /\ nops = 0

RandOnly == UNCHANGED <<docvars, cutvars, flashvars>>

RandInit ==
    /\ \E s \in Settings : cond = Condition(s.chance, s.weights)
    /\ inst \in Entities
    /\ MAP_RAND_SEED = "m1"
    /\ gen = Unseeded
    /\ stream = <<>>
    /\ ran = NoRun
    /\ memo = <<>>
    /\ cutouts = 0
    /\ nexec = 0
    /\ DocOff
    /\ CutoutOff
    /\ FlashOff

Loaded == cond[Results[1]].isSetup

\* the numbers the generator gives during one call that draws at most n,
\* those the call does not draw being 0
Supplies(n) == [1..n -> Draws]

Unused(m) == \A i \in 1..Len(m.supply) : m.supply[i] = 0

\* the numbers a flag or result drew itself (before it ran any sub-result)
RECURSIVE OwnDraws(_, _)
OwnDraws(trace, i) ==
    IF i > Len(trace) \/ (i > 1 /\ trace[i].ev = "run") THEN <<>>
    ELSE (IF trace[i].ev = "draw" THEN <<trace[i].raw>> ELSE <<>>) \o OwnDraws(trace, i + 1)

\* what a flag or result is run on: itself, the entity's name, position and
\* orientation, and the seed of the map
RunOn(res, i, map) ==
    [res |-> res, targetname |-> i.targetname, origin |-> i.origin, angles |-> i.angles,
     map |-> map]

\* the seed strings a flag or result seeded the generator with itself
RECURSIVE OwnKeys(_, _)
OwnKeys(trace, i) ==
    IF i > Len(trace) \/ (i > 1 /\ trace[i].ev = "run") THEN {}
    ELSE (IF trace[i].ev = "seed" THEN {trace[i].key} ELSE {}) \cup OwnKeys(trace, i + 1)

\* memo: the numbers drawn and the seed strings used the first time, and
\* how many times it was run
Remember(m, res) ==
    LET on == RunOn(res, inst, MAP_RAND_SEED)
    IN  IF on \in DOMAIN memo THEN [memo EXCEPT ![on].times = @ + 1]
        ELSE [k \in DOMAIN memo \cup {on} |->
                 IF k = on THEN [draws |-> OwnDraws(m.trace, 1),
                                 keys |-> OwnKeys(m.trace, 1), times |-> 1]
                 ELSE memo[k]]

\* the condition is loaded: the setup of every result that has one is run,
\* once
LoadCondition ==
    /\ ~Loaded
    /\ LET done == setup_list(cond, Results, 1)
       IN  /\ done.kept = Results
           /\ cond' = done.cond
    /\ UNCHANGED <<inst, MAP_RAND_SEED, gen, stream, ran, memo, cutouts, nexec>>
    /\ RandOnly

\* the state after flag or result res was run in m
Ran(op, res, m) ==
    /\ m.ok
    /\ Unused(m)
    /\ cond' = m.cond
    /\ inst' = m.inst
    /\ gen' = m.gen
    /\ stream' = m.stream
    /\ cutouts' = m.cutouts
    /\ ran' = [op |-> op, res |-> res, pre |-> cond, inst |-> inst, map |-> MAP_RAND_SEED,
               cutouts |-> cutouts, trace |-> m.trace, sig |-> m.sig, err |-> m.err]
    /\ memo' = Remember(m, res)
    /\ nexec' = nexec + 1
    /\ UNCHANGED MAP_RAND_SEED
    /\ RandOnly

\* the engine runs a result of the condition on the entity; a result that
\* returns RES_EXHAUSTED is rewritten into the marker that does nothing.
\* draws: the most numbers the result draws (a "random" result: its
\* chance, its choice and the one of the sub-result; one for each axis)
Engine(m, res) ==
    IF m.err = "" /\ m.sig = "RES_EXHAUSTED" THEN [m EXCEPT !.cond[res] = Nop(@)] ELSE m

RunResult(name, draws) ==
    /\ nexec < MaxExec
    /\ \E k \in 1..Len(Results), supply \in Supplies(draws) :
          /\ cond[Results[k]].name = name
          /\ Ran(name, Results[k],
                 Engine(test_result(Machine(cond, inst, gen, stream, cutouts, supply),
                                    Results[k]),
                        Results[k]))

\* the engine evaluates a "random" flag of the condition for the entity
FlagRandom ==
    /\ Loaded
    /\ nexec < MaxExec
    /\ \E k \in 1..Len(Flags), supply \in Supplies(1) :
          Ran("flag", Flags[k],
              flag_random(Machine(cond, inst, gen, stream, cutouts, supply), Flags[k]))

ResRandom ==
    /\ Loaded
    /\ RunResult("random", 3)

ResAddVariant ==
    /\ Loaded
    /\ RunResult("variant", 1)

ResRandNum ==
    /\ Loaded
    /\ RunResult("randomnum", 1)

ResRandVec ==
    /\ Loaded
    /\ RunResult("randomvec", Len(Axes))

ResRandInstShift ==
    /\ Loaded
    /\ RunResult("randomshift", Len(Axes))

\* the compiler is run again on the first map, as it is or edited (which
\* gives it another seed), the entity being as it was
NewRun ==
    /\ nexec < MaxExec
    /\ ran.op # "none"
    /\ MAP_RAND_SEED = "m1"
    /\ MAP_RAND_SEED' \in MapSeeds
    /\ gen' = Unseeded
    /\ inst' = Entity(inst.targetname)
    /\ cutouts' = 0
    /\ ran' = NoRun
    /\ UNCHANGED <<cond, stream, memo, nexec>>
    /\ RandOnly

RandNext ==
    \/ LoadCondition
    \/ FlagRandom \/ ResRandom \/ ResAddVariant \/ ResRandNum \/ ResRandVec
    \/ ResRandInstShift
    \/ NewRun

RandSpec == RandInit /\ [][RandNext]_vars

(***************************************************************************)
(* Claims about the randomisation flags and results (under RandSpec).      *)
(***************************************************************************)
\* the positions of the draws in what the last flag or result did
DrawsOf(trace) == {i \in 1..Len(trace) : trace[i].ev = "draw"}

FirstDraw(trace) == trace[CHOOSE i \in DrawsOf(trace) : \A j \in DrawsOf(trace) : i <= j].raw

\* the percentage a "random" flag or result is written with: the chance
\* given, without its % sign, 100 when there is none or it is no number
Percentage(text) == IF IsNumeric(rstrip_char(text, "%")) THEN int(rstrip_char(text, "%")) ELSE 100

ChanceGiven(c, res) ==
    IF c[res].isSetup \/ c[res].isList
    THEN IF \E id \in 1..Len(c) : c[id].name = "chance" /\ c[id].sval # None
         THEN (CHOOSE text \in {c[id].sval : id \in {k \in 1..Len(c) : c[k].name = "chance"}} : TRUE)
         ELSE None
    ELSE c[res].sval

\* the last flag or result went on past its chance: the flag gave True,
\* the result chose an alternative
Proceeded ==
    IF ran.op = "flag" THEN ran.sig = "True"
    ELSE \E i \in 1..Len(ran.trace) : ran.trace[i].ev = "choice"

\* C12: a "random" flag and a "random" result with percentage c go on
\* exactly when the number d drawn from 0..99 is below c (never for c = 0,
\* always for c = 100 and for a chance that is absent or malformed).
C12_GateIffBelow ==
    (ran.op \in {"flag", "random"} /\ ran.err = "") =>
        (Proceeded <=> FirstDraw(ran.trace) < Percentage(ChanceGiven(ran.pre, ran.res)))

\* what the last flag or result was run on
LastRunOn == RunOn(ran.res, ran.inst, ran.map)

SameEntity(a, b) ==
    a.targetname = b.targetname /\ a.origin = b.origin /\ a.angles = b.angles

\* C13 (as stated): whenever the same flag or result is run on an entity
\* of the same name, position and orientation, in this run of the compiler
\* or another, it draws the same numbers.
C13_SameDraws ==
    \A a, b \in DOMAIN memo :
        (a.res = b.res /\ SameEntity(a, b)) => memo[a].draws = memo[b].draws

\* C13 (amended): whenever the same flag or result is run on an entity of
\* the same name, position and orientation in a map with the same
\* MAP_RAND_SEED, it draws the same numbers as the first time, whatever was
\* run before it and whatever state the generator was in.
C13_SameDrawsSameMap ==
    ran.op # "none" =>
        /\ LastRunOn \in DOMAIN memo
        /\ memo[LastRunOn].draws = OwnDraws(ran.trace, 1)

\* a result that draws has been run a second time on the same entity, after
\* something else had seeded the generator
C13_Witness ==
    /\ ran.op = "randomshift"
    /\ memo[LastRunOn].times = 2

\* C14: every draw comes right after a seeding of its own, and two
\* different flags or results run on the same entity never seed the
\* generator with the same string.
C14_OwnSeedPerDraw ==
    /\ \A i \in DrawsOf(ran.trace) : i > 1 /\ ran.trace[i - 1].ev = "seed"
    /\ \A a, b \in DOMAIN memo :
          (a.res # b.res /\ SameEntity(a, b) /\ a.map = b.map) =>
              memo[a].keys \cap memo[b].keys = {}

\* the two parts of C14, one by one
C14_SeedBeforeEachDraw ==
    \A i \in DrawsOf(ran.trace) : i > 1 /\ ran.trace[i - 1].ev = "seed"

C14_NoSharedKey ==
    \A a, b \in DOMAIN memo :
        (a.res # b.res /\ SameEntity(a, b) /\ a.map = b.map) =>
            memo[a].keys \cap memo[b].keys = {}

\* how many times index i is in a pool
Count(pool, i) == Cardinality({k \in 1..Len(pool) : pool[k] = i})

\* the weight the i-th entry (from 0) of a comma-separated weights string
\* gives: the number written, 1 for an entry that is missing or no number
Weight(text, i) ==
    LET entries == split(IF text = None THEN Str0 ELSE text, ",")
    IN  IF i + 1 <= Len(entries) /\ IsNumeric(entries[i + 1]) THEN int(entries[i + 1]) ELSE 1

RECURSIVE SumWeights(_, _)
SumWeights(text, n) == IF n = 0 THEN 0 ELSE SumWeights(text, n - 1) + Weight(text, n - 1)

\* a pool for n alternatives that follows the weights
Weighted(pool, n, text) ==
    /\ \A k \in 1..Len(pool) : pool[k] \in 0..(n - 1)
    /\ \A i \in 0..(n - 1) : Count(pool, i) = Weight(text, i)
    /\ Len(pool) = SumWeights(text, n)

\* the weights the condition is written with
WeightsGiven == cond[7].sval

\* the variant numbers added to the entity by the last result
Added == SubSeq(inst.file, Len(ran.inst.file) + 1, Len(inst.file))

\* C15: once the condition is loaded, the pool of the "random" result (2
\* alternatives) and of the weighted "variant" (Number 3) holds index i
\* exactly weight[i] times (1 for a missing or non-numeric entry) and
\* nothing else, its size being the sum of the weights; the pool of
\* "variant" "2" is 0, 1; and the suffix a variant adds is _var1 .. _varN.
C15_PoolFollowsWeights ==
    Loaded =>
        /\ Weighted(cond[5].setup.weight, Len(cond[5].setup.results), WeightsGiven)
        /\ Len(cond[5].setup.results) = 2
        /\ Weighted(cond[14].setup.weight, 3, WeightsGiven)
        /\ cond[8].setup.weight = <<0, 1>>
        /\ ran.op = "variant" =>
              Len(Added) = 1 /\ Added[1] \in 1..3 /\ Weight(WeightsGiven, Added[1] - 1) > 0
        /\ (ran.op = "random" /\ ran.err = "") =>
              \A k \in 1..Len(Added) : Added[k] \in 1..2

\* a weighted variant added the suffix of its last variant, with weights
\* that leave an entry out
C15_Witness ==
    /\ ran.op = "variant"
    /\ WeightsGiven = <<"2">>
    /\ Added = <<3>>

\* the alternative the last "random" result chose (0: none)
Chosen ==
    IF \E i \in 1..Len(ran.trace) : ran.trace[i].ev = "choice"
    THEN ran.pre[ran.res].setup.results[
             ran.trace[CHOOSE i \in 1..Len(ran.trace) : ran.trace[i].ev = "choice"].node + 1]
    ELSE 0

\* the results run by the last "random" result, in the order they were run
RECURSIVE SubRuns(_, _)
SubRuns(trace, i) ==
    IF i > Len(trace) THEN <<>>
    ELSE (IF trace[i].ev = "run" THEN <<trace[i].node>> ELSE <<>>) \o SubRuns(trace, i + 1)

\* the sub-results that signal exhausted when run (CutOutTile does)
Exhausts(node) == node.name = "cutouttile"

\* C16: when a "random" result is run, the sub-results it ran that
\* signalled exhausted are rewritten in place into nop with no value;
\* nothing else in the condition changes: the alternatives, their order,
\* the members of a group and the weight pool are as before.
C16_ExhaustedBecomesNop ==
    (ran.op = "random" /\ ran.err = "") =>
        /\ \A id \in 1..Len(cond) :
              IF id \in {SubRuns(ran.trace, 2)[k] : k \in 1..Len(SubRuns(ran.trace, 2))}
                 /\ Exhausts(ran.pre[id])
              THEN cond[id].name = "nop" /\ cond[id].sval = None /\ cond[id].kids = <<>>
                   /\ ~cond[id].isList /\ ~cond[id].isSetup
              ELSE cond[id] = ran.pre[id]
        /\ Len(cond) = Len(ran.pre)
        /\ cond[ran.res].setup.results = ran.pre[ran.res].setup.results
        /\ cond[ran.res].setup.weight = ran.pre[ran.res].setup.weight

\* a "random" result has run a member of a group that signalled exhausted
C16_Witness ==
    /\ ran.op = "random"
    /\ \E id \in 1..Len(cond) : Exhausts(ran.pre[id]) /\ cond[id].name = "nop"

\* C17: a "random" or "variant" result, once run, reports exhausted to the
\* engine, and is thereby rewritten into a nop that is not run again.
C17_ReportsExhausted ==
    (ran.op \in {"random", "variant"} /\ ran.err = "") =>
        /\ ran.sig = "RES_EXHAUSTED"
        /\ cond[ran.res].name = "nop"

\* C18: when a "random" or "variant" result is run again on the entity it
\* was already run on, nothing is drawn and the scene stays as it is.
C18_NoRedraw ==
    (ran.op \in {"random", "variant"} /\ memo[LastRunOn].times > 1) =>
        /\ DrawsOf(ran.trace) = {}
        /\ inst = ran.inst
        /\ cutouts = ran.cutouts

\* the part of C18 about a sub-result already rewritten into nop: running
\* it draws nothing and changes nothing, and CutOutTile works on the scene
\* at most once
C18_NopDoesNothing ==
    /\ cutouts <= 1
    /\ (ran.op = "random" /\ Chosen # 0 /\ ran.pre[Chosen].name = "nop") =>
          Len(DrawsOf(ran.trace)) = 2 /\ inst = ran.inst /\ cutouts = ran.cutouts

\* C19: when a "random" result chooses a group, the members of the group
\* are run once each, in the order declared, and nothing else is run,
\* also when a member signals exhausted.
C19_GroupRunsInOrder ==
    (ran.op = "random" /\ ran.err = "" /\ Chosen # 0 /\ ran.pre[Chosen].name = "group") =>
        SubRuns(ran.trace, 2) = ran.pre[Chosen].kids

\* a group was run whose first member signalled exhausted, and the member
\* after it has set its value on the entity
C19_Witness ==
    /\ ran.op = "random"
    /\ Chosen # 0
    /\ ran.pre[Chosen].name = "group"
    /\ Exhausts(ran.pre[ran.pre[Chosen].kids[1]])
    /\ inst.fixup # ran.inst.fixup

(***************************************************************************)
(* A "random" result by itself (SetupSpec): the block                      *)
(*    "random" { "weights" "<weights>" "variant" "<n>" ... }               *)
(* with one to MaxAlts alternatives, each a "variant" whose setup gives a  *)
(* pool ("2") or fails ("0", "x").  Object 1 is the block, object 2 its    *)
(* weights, the objects from 3 on the alternatives as declared.            *)
(***************************************************************************)
MaxAlts == 3

RandomBlock(weights, alts) ==
    << Block("random", Given(weights, 2) \o [k \in 1..Len(alts) |-> k + 2]),
       Leaf("weights", weights) >>
    \o [k \in 1..Len(alts) |-> Leaf("variant", alts[k])]

RandomBlocks ==
    { RandomBlock(weights, alts) :
        weights \in {None, <<"2">>, <<"0", ",", "3">>},
        alts \in UNION { [1..n -> { <<"2">>, <<"0">>, <<"x">> }] : n \in 1..MaxAlts } }

SetupInit ==
    /\ cond \in RandomBlocks
    /\ inst \in Entities
    /\ MAP_RAND_SEED = "m1"
    /\ gen = Unseeded
    /\ stream = <<>>
    /\ ran = NoRun
    /\ memo = <<>>
    /\ cutouts = 0
    /\ nexec = 0
    /\ DocOff
    /\ CutoutOff
    /\ FlashOff

\* the condition is loaded: Condition.setup_result runs res_random_setup
SetupRandom ==
    /\ ~cond[1].isSetup
    /\ LET done == setup_result(cond, 1)
       IN  /\ done.valid
           /\ cond' = done.cond
    /\ UNCHANGED <<inst, MAP_RAND_SEED, gen, stream, ran, memo, cutouts, nexec>>
    /\ RandOnly

\* the engine runs the result on the entity
RunRandom ==
    /\ cond[1].isSetup
    /\ nexec < MaxExec
    /\ \E supply \in Supplies(3) :
          Ran("random", 1,
              Engine(test_result(Machine(cond, inst, gen, stream, cutouts, supply), 1), 1))

SetupNext == SetupRandom \/ RunRandom

SetupSpec == SetupInit /\ [][SetupNext]_vars

(***************************************************************************)
(* Claims about the alternatives of a "random" result (under SetupSpec).   *)
(***************************************************************************)
\* the setup of every alternative of the block gave a value
NoneDropped == \A id \in 3..Len(cond) : cond[id].isSetup

\* every index of the pool is one of the list of alternatives, and the
\* alternative there is the one declared at that index
PoolIndexesValid ==
    LET v == cond[1].setup
    IN  \A k \in 1..Len(v.weight) :
            /\ v.weight[k] + 1 <= Len(v.results)
            /\ v.results[v.weight[k] + 1] = v.weight[k] + 3

\* C27: once a "random" result is set up, every index its pool can give is
\* an index of its list of alternatives, the alternative at index i being
\* the i-th one declared, also when the setup of an alternative failed and
\* it was dropped from the list; so the result, when it is run and has
\* drawn an index, finds its alternative.
C27_PoolIndexesValid ==
    cond[1].isSetup => (PoolIndexesValid /\ ((ran.op = "random" /\ Proceeded) => ran.err = ""))

\* the same where no alternative was dropped
C27_ValidWhenNoneDropped ==
    (cond[1].isSetup /\ NoneDropped) =>
        (PoolIndexesValid /\ ((ran.op = "random" /\ Proceeded) => ran.err = ""))

\* a "random" result with several alternatives, none dropped, has run and
\* has drawn an index
C27_NoneDroppedWitness ==
    /\ cond[1].isSetup
    /\ NoneDropped
    /\ Len(cond) > 3
    /\ ran.op = "random"
    /\ Proceeded

(***************************************************************************)
(* The CutOutTile result (conditions/cutoutTile.py).  Positions are        *)
(* <<x, y, z>> in map units; the instances of the map are unrotated        *)
(* (angles "0 0 0"), so that Vec.rotate_by_str changes nothing.  step is   *)
(* the position of the compiler: "meta" while the meta-condition visits    *)
(* the instances (n: the next one), "floor" before the n-th cell of the    *)
(* footprint is converted, "tile" before its i-th tile is decided, "sides" *)
(* before add_floor_sides, "done" once the result has returned             *)
(* RES_EXHAUSTED.                                                          *)
(***************************************************************************)
CutoutOnly == UNCHANGED <<docvars, randvars, flashvars>>

FLOOR_DEPTH == 8

\* the members of a list
Members(seq) == {seq[k] : k \in 1..Len(seq)}

Least(a, b) == IF a < b THEN a ELSE b

Greatest(a, b) == IF a > b THEN a ELSE b

\* (loc - (15, 15, 0)) // 32 * 32 + (16, 16, 0) and the same of
\* loc + (15, 15, 0): the one or two tiles a sign at loc lies on
forced_tiles(loc) ==
    { <<((loc[1] - 15) \div 32) * 32 + 16, ((loc[2] - 15) \div 32) * 32 + 16,
        (loc[3] \div 32) * 32>>,
      <<((loc[1] + 15) \div 32) * 32 + 16, ((loc[2] + 15) \div 32) * 32 + 16,
        (loc[3] \div 32) * 32>> }

\* the locations find_indicator_panels adds for an instance of the map
find_indicator_panels(ent) ==
    IF ent.file # "indpan" THEN {}
    ELSE forced_tiles(<<ent.origin[1], ent.origin[2], ent.origin[3] - 64>>)

\* the locations res_cutout_tile adds for the overlays of the map
RECURSIVE overlay_locations(_, _)
overlay_locations(overlays, k) ==
    IF k > Len(overlays) THEN {}
    ELSE (IF overlays[k].material = "signage" /\ overlays[k].basisnormal \in {"0 0 1", "0 0 -1"}
          THEN forced_tiles(overlays[k].origin) ELSE {})
         \cup overlay_locations(overlays, k + 1)

\* conditions.VMF.by_class['func_instance']: the instances of the map as
\* they are when the loop starts
by_class(map) == map.instances

\* (mutant) the loop over the instances with inst.remove() for the markers
\* that are connected to nothing only
RECURSIVE marker_scan_KeepConnected(_, _, _)
marker_scan_KeepConnected(instances, k, acc) ==
    IF k > Len(instances) THEN acc
    ELSE LET ent == instances[k]
             targ == ent.targetname
             loc == <<ent.origin[1], ent.origin[2], ent.origin[3] - 64>>
             io_list == [j \in 1..Len(ent.outputs) |-> <<targ, ent.outputs[j]>>]
                        \o (IF Len(ent.outputs) = 0 /\ ent.connectioncount = "0"
                            THEN << <<targ, targ>> >> ELSE <<>>)
         IN  marker_scan_KeepConnected(instances, k + 1,
                IF ent.file # "marker" THEN [acc EXCEPT !.left = Append(@, ent)]
                ELSE [acc EXCEPT
                         !.INST_LOCS = [t \in DOMAIN @ \cup {targ} |->
                                           IF t = targ THEN loc ELSE @[t]],
                         !.FLOOR_IO = @ \o io_list,
                         !.left = IF Len(ent.outputs) = 0 THEN @ ELSE Append(@, ent)])

\* the loop over the instances of res_cutout_tile, from the k-th on: the
\* markers give INST_LOCS (by targetname) and the pairs of FLOOR_IO, and
\* are removed from the map; left: the instances that stay
RECURSIVE marker_scan(_, _, _)
marker_scan(instances, k, acc) ==
    IF k > Len(instances) THEN acc
    ELSE LET ent == instances[k]
             targ == ent.targetname
             loc == <<ent.origin[1], ent.origin[2], ent.origin[3] - 64>>
             io_list == [j \in 1..Len(ent.outputs) |-> <<targ, ent.outputs[j]>>]
                        \o (IF Len(ent.outputs) = 0 /\ ent.connectioncount = "0"
                            THEN << <<targ, targ>> >> ELSE <<>>)
         IN  marker_scan(instances, k + 1,
                IF ent.file # "marker" THEN [acc EXCEPT !.left = Append(@, ent)]
                ELSE [acc EXCEPT
                         !.INST_LOCS = [t \in DOMAIN @ \cup {targ} |->
                                           IF t = targ THEN loc ELSE @[t]],
                         !.FLOOR_IO = @ \o io_list])

\* utils.iter_grid over the box, stride 128
iter_grid(box_min, box_max) ==
    LET ny == (box_max[2] - box_min[2]) \div 128 + 1
        nx == (box_max[1] - box_min[1]) \div 128 + 1
    IN  [k \in 1..(nx * ny) |->
            <<box_min[1] + 128 * ((k - 1) \div ny), box_min[2] + 128 * ((k - 1) % ny),
              box_min[3]>>]

\* (mutant) a cell is recorded again every time a footprint covers it
add_cell_Again(cells, loc) == Append(cells, loc)

\* floor_neighbours[z][x, y] = -1: the cell is in the dict once
add_cell(cells, loc) == IF loc \in Members(cells) THEN cells ELSE Append(cells, loc)

RECURSIVE add_cells(_, _, _)
add_cells(cells, new, k) ==
    IF k > Len(new) THEN cells ELSE add_cells(add_cell(cells, new[k]), new, k + 1)

\* the border points of a box: north and south for every x, then east and
\* west for every y
border_points(box_min, box_max) ==
    LET nx == (box_max[1] - box_min[1]) \div 128 + 1
        ny == (box_max[2] - box_min[2]) \div 128 + 1
        z == box_min[3]
        x(k) == box_min[1] + 128 * ((k - 1) \div 2)
        y(k) == box_min[2] + 128 * ((k - 1) \div 2)
    IN  [k \in 1..(2 * nx) |->
            IF k % 2 = 1
            THEN [wall |-> <<x(k), box_max[2] + 64, z - 64>>,
                  ceil |-> <<x(k), box_max[2] + 128, z>>, rot |-> 270]
            ELSE [wall |-> <<x(k), box_min[2] - 64, z - 64>>,
                  ceil |-> <<x(k), box_min[2] - 128, z>>, rot |-> 90]]
        \o
        [k \in 1..(2 * ny) |->
            IF k % 2 = 1
            THEN [wall |-> <<box_max[1] + 64, y(k), z - 64>>,
                  ceil |-> <<box_max[1] + 128, y(k), z>>, rot |-> 180]
            ELSE [wall |-> <<box_min[1] - 64, y(k), z - 64>>,
                  ceil |-> <<box_min[1] - 128, y(k), z>>, rot |-> 0]]

\* the loop over FLOOR_IO of res_cutout_tile, from the k-th pair on: a pair
\* whose end is no marker, or is on another level, is passed over
RECURSIVE floor_io(_, _, _, _)
floor_io(FLOOR_IO, INST_LOCS, k, acc) ==
    IF k > Len(FLOOR_IO) THEN acc
    ELSE LET start_floor == FLOOR_IO[k][1]
             end_floor == FLOOR_IO[k][2]
             a == INST_LOCS[start_floor]
             b == INST_LOCS[end_floor]
             box_min == <<Least(a[1], b[1]), Least(a[2], b[2]), Least(a[3], b[3])>>
             box_max == <<Greatest(a[1], b[1]), Greatest(a[2], b[2]), Greatest(a[3], b[3])>>
         IN  floor_io(FLOOR_IO, INST_LOCS, k + 1,
                IF end_floor \notin DOMAIN INST_LOCS THEN acc
                ELSE IF box_min[3] # box_max[3] THEN acc
                ELSE [floor_neighbours |->
                          add_cells(acc.floor_neighbours, iter_grid(box_min, box_max), 1),
                      floor_edges |-> acc.floor_edges \o border_points(box_min, box_max)])

\* xy_dict[x, y] after the first loop over the footprint: how many of the 8
\* cells around are not in it
cur_count(cells, loc) ==
    Cardinality({d \in {-128, 0, 128} \X {-128, 0, 128} :
                    /\ d # <<0, 0>>
                    /\ <<loc[1] + d[1], loc[2] + d[2], loc[3]>> \notin Members(cells)})

\* weights[x, y], in 80ths: min((tile_count + 0.5) / 8, 1), tile_count in
\* tenths
noise_weight_of(cells, loc) ==
    LET get(dx, dy) ==
            IF <<loc[1] + dx, loc[2] + dy, loc[3]>> \in Members(cells)
            THEN cur_count(cells, <<loc[1] + dx, loc[2] + dy, loc[3]>>) ELSE 8
        tile_count ==
            8 * cur_count(cells, loc)
            + get(-128, -128) + get(-128, 128) + get(128, -128) + get(128, 128)
            + 2 * get(-128, 0) + 2 * get(0, -128) + 2 * get(0, 128) + 2 * get(128, 0)
    IN  Least(tile_count + 5, 80)

\* rand of a tile that is not forced, in 800ths: 100 * get_noise() + 10
\* (the noise in hundredths) times 0.1 + 0.9 * (1 - noise_weight) (the
\* weight in 80ths)
rand_of(noise, noise_weight) == (noise + 10) * (800 - 9 * noise_weight)

\* (mutant) convert_tile with a flip that never happens
convert_tile_NoFlip(tile_loc, signage_loc, settings, noise, noise_weight, flip) ==
    LET forced == tile_loc \in signage_loc
        rand == IF forced THEN 100 * 800 ELSE rand_of(noise, noise_weight)
        should_make_tile == forced \/ rand < 800 * settings.floor_chance
    IN  [loc |-> tile_loc, forced |-> forced, rand |-> rand,
         flip |-> IF forced THEN -1 ELSE flip,
         kind |-> IF should_make_tile THEN "full"
                  ELSE IF rand < 800 * settings.floor_glue_chance THEN "glue"
                  ELSE "none"]

\* one turn of the loop of convert_floor: the tile at tile_loc, with what
\* get_noise() and random.randint(0, 7) give (flip; -1 where it is not
\* drawn)
convert_tile(tile_loc, signage_loc, settings, noise, noise_weight, flip) ==
    LET forced == tile_loc \in signage_loc
        rand == IF forced THEN 100 * 800 ELSE rand_of(noise, noise_weight)
        below == rand < 800 * settings.floor_chance
        should_make_tile == IF forced THEN TRUE ELSE IF flip = 0 THEN ~below ELSE below
    IN  [loc |-> tile_loc, forced |-> forced, rand |-> rand,
         flip |-> IF forced THEN -1 ELSE flip,
         kind |-> IF should_make_tile THEN "full"
                  ELSE IF rand < 800 * settings.floor_glue_chance THEN "glue"
                  ELSE "none"]

\* (mutant) add_floor_sides that seals every border point it is given
add_floor_sides_SealAll(map, locs) ==
    LET added_locations == {locs[k].wall : k \in 1..Len(locs)}
        hit(face) == face.mat = "tools/toolsnodraw" /\ face.loc \in added_locations
    IN  [map EXCEPT
            !.faces = [k \in 1..Len(@) |->
                          IF hit(@[k]) THEN [@[k] EXCEPT !.mat = "squarebeams"] ELSE @[k]],
            !.templates = @ \o [k \in 1..Len(locs) |->
                                   [temp_name |-> "FLOOR_TEMP_SIDE_WORLD",
                                    origin |-> locs[k].wall, rot |-> locs[k].rot]]]

\* add_floor_sides: the nodraw world faces at a border point get the
\* squarebeams texture; the border points that have none are sealed with a
\* template
add_floor_sides(map, locs) ==
    LET added_locations == {locs[k].wall : k \in 1..Len(locs)}
        hit(face) == face.mat = "tools/toolsnodraw" /\ face.loc \in added_locations
        found == {map.faces[k].loc : k \in {j \in 1..Len(map.faces) : hit(map.faces[j])}}
        SOLIDS == {map.solids[k].loc : k \in 1..Len(map.solids)}
        diag_loc(k) == <<locs[k].wall[1], locs[k].wall[2], locs[k].wall[3] + 128>>
        RECURSIVE seal(_)
        seal(k) ==
            IF k > Len(locs) THEN <<>>
            ELSE (IF locs[k].wall \in found THEN <<>>
                  ELSE <<[temp_name |->
                              IF locs[k].ceil \notin SOLIDS /\ diag_loc(k) \notin SOLIDS
                              THEN "FLOOR_TEMP_SIDE_DETAIL" ELSE "FLOOR_TEMP_SIDE_WORLD",
                          origin |-> locs[k].wall, rot |-> locs[k].rot]>>)
                 \o seal(k + 1)
    IN  [map EXCEPT
            !.faces = [k \in 1..Len(@) |->
                          IF hit(@[k]) THEN [@[k] EXCEPT !.mat = "squarebeams"] ELSE @[k]],
            !.templates = @ \o seal(1)]

\* the maps.  The first ones have one marker that is connected to nothing,
\* over one floor brush, and differ in what forces tiles: an indicator
\* panel that lies between two tiles; a sign on the floor or on a wall, or
\* another overlay on the floor.  Then: two markers connected in both
\* directions, one over a pillar; two footprints that overlap (13 cells),
\* with a floor brush in a cell of both;
\* a footprint of 5 x 5 cells with a floor brush in the middle; and
\* markers whose footprint is passed over (the partner on another level,
\* the partner no marker), with an instance that is no marker.
Maps ==
    LET inst_(file, targ, origin, outputs, count) ==
            [file |-> file, targetname |-> targ, origin |-> origin, outputs |-> outputs,
             connectioncount |-> count]
        indpan == inst_("indpan", "pan", <<32, 16, 64>>, <<>>, "0")
        button == inst_("button", "btn", <<112, 112, 64>>, <<>>, "0")
        marker(targ, x, y, z, outputs) ==
            inst_("marker", targ, <<x, y, z + 64>>, outputs,
                  IF Len(outputs) = 0 THEN "0" ELSE "1")
        brush(x, y, solid) == [loc |-> <<x, y, 0>>, solid |-> solid, drop |-> 0]
        face(x, y, mat) == [loc |-> <<x, y, -64>>, mat |-> mat]
        map(instances, overlays, solids, faces) ==
            [instances |-> instances, overlays |-> overlays, solids |-> solids,
             faces |-> faces, templates |-> <<>>]
        one == <<marker("m", 64, 64, 0, <<>>)>>
        sides == <<face(64, 128, "tools/toolsnodraw"), face(128, 64, "wall")>>
    IN  { map(instances \o one, overlays, <<brush(64, 64, "floor")>>, sides) :
             instances \in {<<>>, <<indpan>>, <<button, indpan>>},
             overlays \in
                { <<>>,
                  <<[material |-> "signage", basisnormal |-> "0 0 1", origin |-> <<80, 80, 0>>]>>,
                  <<[material |-> "signage", basisnormal |-> "1 0 0", origin |-> <<0, 80, 16>>]>>,
                  <<[material |-> "decal", basisnormal |-> "0 0 1", origin |-> <<112, 16, 0>>]>> } }
        \cup
        { map(<<marker("a", 64, 64, 0, <<"b">>), marker("b", 192, 64, 0, <<"a">>)>>, <<>>,
              <<brush(64, 64, "floor"), brush(192, 64, "pillar")>>,
              <<face(64, 128, "tools/toolsnodraw"), face(64, 128, "tools/toolsnodraw")>>),
          map(<<marker("a", 64, 64, 0, <<"b", "c">>), marker("b", 320, 448, 0, <<>>),
                marker("c", 448, 64, 0, <<>>)>>, <<>>,
              <<brush(192, 64, "floor"), brush(192, 192, "floor"), brush(192, 320, "floor")>>,
              <<face(64, 128, "tools/toolsnodraw")>>),
          map(<<marker("a", 64, 64, 0, <<"b">>), marker("b", 576, 576, 0, <<>>)>>, <<>>,
              <<brush(320, 320, "floor")>>, <<>>),
          map(<<marker("a", 64, 64, 0, <<"up">>), marker("up", 192, 64, 128, <<"relay">>),
                button>>, <<>>,
              <<brush(64, 64, "floor")>>, sides) }

\* floorChance and floorGlueChance as the result is written
Chances ==
    { [floorChance |-> None, floorGlueChance |-> None],
      [floorChance |-> <<"0">>, floorGlueChance |-> <<"6", "0">>],
      [floorChance |-> <<"5", "0">>, floorGlueChance |-> <<"9", "0">>] }

\* what get_noise() gives, in hundredths
Noises == {0, 50, 100}

CutoutInit ==
    /\ VMF \in Maps
    /\ FORCE_LOCATIONS = {}
    /\ sign_loc = {}
    /\ SETTINGS = <<>>
    /\ floor_neighbours = <<>>
    /\ floor_edges = <<>>
    /\ step = [pc |-> "meta", n |-> 1, i |-> 0, noise_weight |-> 0]
    /\ tile = NoTile
    /\ DocOff
    /\ RandomOff
    /\ FlashOff

\* (mutant) the result does not wait for the meta-conditions
MetaPassDone_Never == TRUE

\* the meta-pass is over: the meta-condition has been run on every instance
MetaPassDone == step.n > Len(VMF.instances)

\* the meta-condition of priority -1000 is run on the next instance
FindIndicatorPanels ==
    /\ step.pc = "meta"
    /\ step.n <= Len(VMF.instances)
    /\ FORCE_LOCATIONS' = FORCE_LOCATIONS \cup find_indicator_panels(VMF.instances[step.n])
    /\ step' = [step EXCEPT !.n = @ + 1]
    /\ UNCHANGED <<VMF, sign_loc, SETTINGS, floor_neighbours, floor_edges, tile>>
    /\ CutoutOnly

\* res_cutout_tile up to the conversion of the footprint
ResCutoutTile ==
    /\ step.pc = "meta"
    /\ MetaPassDone
    /\ sign_loc' = FORCE_LOCATIONS
    /\ FORCE_LOCATIONS' = FORCE_LOCATIONS \cup overlay_locations(VMF.overlays, 1)
    /\ \E res \in Chances :
          SETTINGS' =
              [floor_chance |->
                   conv_int(IF res.floorChance = None THEN <<"1", "0", "0">>
                            ELSE res.floorChance, 100),
               floor_glue_chance |->
                   conv_int(IF res.floorGlueChance = None THEN <<"0">>
                            ELSE res.floorGlueChance, 0)]
    /\ LET scan == marker_scan(by_class(VMF), 1,
                               [INST_LOCS |-> <<>>, FLOOR_IO |-> <<>>, left |-> <<>>])
           floors == floor_io(scan.FLOOR_IO, scan.INST_LOCS, 1,
                              [floor_neighbours |-> <<>>, floor_edges |-> <<>>])
       IN  /\ VMF' = [VMF EXCEPT !.instances = scan.left]
           /\ floor_neighbours' = floors.floor_neighbours
           /\ floor_edges' = floors.floor_edges
           /\ step' = [step EXCEPT
                          !.pc = IF Len(floors.floor_neighbours) = 0 THEN "sides" ELSE "floor",
                          !.n = 1]
    /\ UNCHANGED tile
    /\ CutoutOnly

\* the state after the cell of the footprint at hand is done with
NextFloor == [step EXCEPT !.pc = IF step.n < Len(floor_neighbours) THEN "floor" ELSE "sides",
                          !.n = @ + 1, !.i = 0]

\* the brush of conditions.SOLIDS at loc (0: none)
brush_at(loc) ==
    IF \E k \in 1..Len(VMF.solids) : VMF.solids[k].loc = loc
    THEN CHOOSE k \in 1..Len(VMF.solids) : VMF.solids[k].loc = loc
    ELSE 0

\* convert_floor up to its loop: nothing is done where there is no brush;
\* a pillar gets a template; a floor brush is moved down
ConvertFloor ==
    /\ step.pc = "floor"
    /\ LET loc == floor_neighbours[step.n]
           k == brush_at(loc)
       IN  IF k = 0 THEN step' = NextFloor /\ UNCHANGED VMF
           ELSE IF VMF.solids[k].solid = "pillar"
           THEN /\ step' = NextFloor
                /\ VMF' = [VMF EXCEPT !.templates = Append(@,
                              [temp_name |-> "FLOOR_TEMP_PILLAR", origin |-> loc, rot |-> 0])]
           ELSE /\ step' = [step EXCEPT !.pc = "tile", !.i = 0,
                               !.noise_weight = noise_weight_of(floor_neighbours, loc)]
                /\ VMF' = [VMF EXCEPT !.solids[k].drop = @ + FLOOR_DEPTH]
    /\ UNCHANGED <<FORCE_LOCATIONS, sign_loc, SETTINGS, floor_neighbours, floor_edges, tile>>
    /\ CutoutOnly

\* one turn of the loop of convert_floor
ConvertTile ==
    /\ step.pc = "tile"
    /\ LET loc == floor_neighbours[step.n]
           tile_loc == <<loc[1] - 64 + (step.i \div 4) * 32 + 16,
                         loc[2] - 64 + (step.i % 4) * 32 + 16, loc[3]>>
       IN  /\ \E noise \in Noises, flip \in 0..7 :
                 tile' = convert_tile(tile_loc, sign_loc, SETTINGS, noise,
                                      step.noise_weight, flip)
           /\ sign_loc' = sign_loc \ {tile_loc}
    /\ step' = IF step.i < 15 THEN [step EXCEPT !.i = @ + 1] ELSE NextFloor
    /\ UNCHANGED <<VMF, FORCE_LOCATIONS, SETTINGS, floor_neighbours, floor_edges>>
    /\ CutoutOnly

\* the end of res_cutout_tile: add_floor_sides(floor_edges), and
\* RES_EXHAUSTED is returned
AddFloorSides ==
    /\ step.pc = "sides"
    /\ VMF' = add_floor_sides(VMF, floor_edges)
    /\ step' = [step EXCEPT !.pc = "done"]
    /\ UNCHANGED <<FORCE_LOCATIONS, sign_loc, SETTINGS, floor_neighbours, floor_edges, tile>>
    /\ CutoutOnly

CutoutNext ==
    FindIndicatorPanels \/ ResCutoutTile \/ ConvertFloor \/ ConvertTile \/ AddFloorSides

CutoutSpec == CutoutInit /\ [][CutoutNext]_vars

(***************************************************************************)
(* Claims about CutOutTile (under CutoutSpec).                             *)
(***************************************************************************)
\* the locations the indicator panels of the map force
RECURSIVE PanelLocations(_)
PanelLocations(k) ==
    IF k > Len(VMF.instances) THEN {}
    ELSE find_indicator_panels(VMF.instances[k]) \cup PanelLocations(k + 1)

\* a tile has been decided whose centre is one of locs
Decided(locs) == tile # NoTile /\ tile.loc \in locs

\* C20: a tile of a converted footprint whose centre is a forced location,
\* be it forced by an indicator panel or by a signage overlay on a floor or
\* ceiling of the map, is a full tile, whatever the noise, the chance and
\* the flip.
C20_ForcedTileIsFull ==
    Decided(PanelLocations(1) \cup overlay_locations(VMF.overlays, 1)) => tile.kind = "full"

\* the part of C20 that holds: the tiles an indicator panel forces
C20_PanelTileIsFull ==
    Decided(PanelLocations(1)) => tile.kind = "full" /\ tile.forced

\* a forced tile was decided with a chance of 0
C20_PanelWitness ==
    /\ Decided(PanelLocations(1))
    /\ SETTINGS.floor_chance = 0

Present ==
    tile.forced \/ ((tile.rand < 800 * SETTINGS.floor_chance) # (tile.flip = 0))

\* C22: every tile of a converted footprint is exactly one of a full tile, a
\* glue tile and no tile; it is a glue tile only if it did not resolve to
\* present and its rand is below the glue chance; and a tile at a forced
\* location is neither a glue tile nor no tile.
C22_OneKindPerTile ==
    tile # NoTile =>
        /\ tile.kind \in {"full", "glue", "none"}
        /\ tile.kind = "full" <=> Present
        /\ tile.kind = "glue" => tile.rand < 800 * SETTINGS.floor_glue_chance
        /\ tile.loc \in PanelLocations(1) \cup overlay_locations(VMF.overlays, 1) =>
              tile.kind \notin {"glue", "none"}

\* the part of C22 that holds: the kinds, the glue tiles, and the tiles
\* that convert_floor finds in the set of forced locations it is given
C22_OneKindPerGivenTile ==
    tile # NoTile =>
        /\ tile.kind \in {"full", "glue", "none"}
        /\ tile.kind = "full" <=> Present
        /\ tile.kind = "glue" => tile.rand < 800 * SETTINGS.floor_glue_chance
        /\ tile.forced => tile.kind = "full"

\* a glue tile was made
C22_GlueWitness == tile # NoTile /\ tile.kind = "glue"


\* the neighbours of a cell that are absent from the footprint, counted
\* with an orthogonal one worth twice a diagonal one
AbsentScore(cells, loc) ==
    LET present == Members(cells)
        absent(dx, dy) ==
            IF <<loc[1] + dx, loc[2] + dy, loc[3]>> \in present THEN 0 ELSE 1
    IN  absent(-128, -128) + absent(-128, 128) + absent(128, -128) + absent(128, 128)
        + 2 * (absent(-128, 0) + absent(128, 0) + absent(0, -128) + absent(0, 128))

\* C23: the neighbour-absence weight of every cell of a footprint lies in
\* [0, 1] (here in 80ths) and is computed from the absent ones of its 8
\* neighbours, an orthogonal one contributing exactly twice what a diagonal
\* one contributes: two cells with the same absent neighbours so counted have
\* the same weight.
C23_WeightFromAbsentNeighbours ==
    \A k1, k2 \in 1..Len(floor_neighbours) :
        LET c1 == floor_neighbours[k1]
            c2 == floor_neighbours[k2]
        IN  /\ noise_weight_of(floor_neighbours, c1) \in 0..80
            /\ AbsentScore(floor_neighbours, c1) = AbsentScore(floor_neighbours, c2)
                   => noise_weight_of(floor_neighbours, c1)
                          = noise_weight_of(floor_neighbours, c2)


\* a nodraw face at the border point has been given the squarebeams texture
Retextured(wall) ==
    \E k \in 1..Len(VMF.faces) : VMF.faces[k].loc = wall /\ VMF.faces[k].mat = "squarebeams"

\* a sealing template has been placed at the border point
Sealed(wall) ==
    \E k \in 1..Len(VMF.templates) :
        /\ VMF.templates[k].origin = wall
        /\ VMF.templates[k].temp_name \in {"FLOOR_TEMP_SIDE_WORLD", "FLOOR_TEMP_SIDE_DETAIL"}

\* C24: when CutOutTile has ended, every border point recorded along the
\* sides of the footprints is patched in exactly one way: its nodraw face has
\* been retextured, or a sealing template has been placed there.
C24_BorderPatchedOneWay ==
    step.pc = "done" =>
        \A k \in 1..Len(floor_edges) :
            Retextured(floor_edges[k].wall) # Sealed(floor_edges[k].wall)

\* CutOutTile has ended, with a border point retextured and another sealed
C24_Witness ==
    /\ step.pc = "done"
    /\ \E k \in 1..Len(floor_edges) : Retextured(floor_edges[k].wall)
    /\ \E k \in 1..Len(floor_edges) : Sealed(floor_edges[k].wall)


\* res_cutout_tile is executed in this step
CutoutStarts == step.pc = "meta" /\ step'.pc # "meta"

C29_CellConvertedOnce ==
    /\ \A k1, k2 \in 1..Len(floor_neighbours) :
           floor_neighbours[k1] = floor_neighbours[k2] => k1 = k2
    /\ \A k \in 1..Len(VMF.solids) : VMF.solids[k].drop \in {0, FLOOR_DEPTH}

\* the cells of two overlapping footprints have been converted, and a floor
\* brush in a cell of both has been lowered
C29_Witness ==
    /\ step.pc = "done"
    /\ Len(floor_neighbours) = 13
    /\ \E k \in 1..Len(VMF.solids) :
           VMF.solids[k].loc = <<192, 64, 0>> /\ VMF.solids[k].drop = FLOOR_DEPTH


MaxPending == 3

\* the variables of COUNT_CATEGORIES: count_brush, count_entity, count_overlay
Bars == {"brush", "entity", "overlay"}

\* flash_count(): every bar that should flash goes from 0 to 100 or back to
\* 0, and if there is one flash_count is handed to the timer
flash_count(ui) ==
    [ui EXCEPT
        !.bar_value = [b \in Bars |->
                          IF ~ui.should_flash[b] THEN @[b]
                          ELSE IF @[b] = 0 THEN 100 ELSE 0],
        !.pending = IF \E b \in Bars : ui.should_flash[b] THEN @ + 1 ELSE @]

FlashInit ==
    /\ should_flash = [b \in Bars |-> FALSE]
    /\ bar_value = [b \in Bars |-> 0]
    /\ pending = 0
    /\ DocOff
    /\ RandomOff
    /\ CutoutOff

\* refresh_counts(): the counts are read again; full: the bars whose count
\* has reached the limit, the others being at 0 or at 50 percent
RefreshCounts ==
    /\ pending < MaxPending
    /\ \E full \in SUBSET Bars, percent \in {0, 50} :
          LET run_flash == ~(\E b \in Bars : should_flash[b])
              read == [should_flash |-> [b \in Bars |-> b \in full],
                       bar_value |-> [b \in Bars |->
                                         IF b \in full THEN bar_value[b] ELSE percent],
                       pending |-> pending]
              ui == IF run_flash THEN flash_count(read) ELSE read
          IN  /\ should_flash' = ui.should_flash
              /\ bar_value' = ui.bar_value
              /\ pending' = ui.pending
    /\ UNCHANGED <<docvars, randvars, cutvars>>

\* the timer runs a pending flash_count
TimerFires ==
    /\ pending > 0
    /\ LET ui == flash_count([should_flash |-> should_flash, bar_value |-> bar_value,
                              pending |-> pending - 1])
       IN  /\ should_flash' = ui.should_flash
           /\ bar_value' = ui.bar_value
           /\ pending' = ui.pending
    /\ UNCHANGED <<docvars, randvars, cutvars>>

FlashNext == RefreshCounts \/ TimerFires

FlashSpec == FlashInit /\ [][FlashNext]_vars

(***************************************************************************)
(* Claims about the count bars (under FlashSpec).                          *)
(***************************************************************************)
\* C28: whatever the order of the calls of refresh_counts and the runs of
\* the timer, at most one flash_count callback is pending at any time, also
\* after all bars went below their limit and one reached it again before
\* the pending callback was run.
C28_OneCallbackPending == pending <= 1

\* the same, as long as no call of refresh_counts finds, with a callback
\* pending, that no bar should flash
C28_OneChainWhileFlashing ==
    [][(pending <= 1 /\ ~(pending > 0 /\ \A b \in Bars : ~should_flash[b])) =>
           pending' <= 1]_vars

\* a callback is pending and a bar is flashing at 100
C28_FlashingWitness ==
    /\ pending = 1
    /\ \E b \in Bars : should_flash[b] /\ bar_value[b] = 100

====
